---- MODULE Spec2Model ----
(***************************************************************************)
(* A model of the plexus router application (src/plexus/app.py): one      *)
(* switch (datapath) with its Router, the per-VLAN VlanRouters, their     *)
(* AddressData, PolicyRoutingTable and SuspendPacketList, and the flow    *)
(* table of the switch as the flow-mods of the application leave it.      *)
(*                                                                         *)
(* Representation of values                                                *)
(*   IPv4 address (text form 'a.b.c.d')  a 4-tuple of octets <<a,b,c,d>>  *)
(*   the Python integer 0 used as an IP  ZeroInt, the 1-tuple <<0>>       *)
(*   a 32-bit id (address_id, route_id)  two 16-bit limbs <<hi, lo>>      *)
(*   the REST word 'all'                 REST_ALL, a 3-tuple of letters   *)
(*   a 64-bit cookie                     <<bits 63..32, 31..16, 15..0>>   *)
(*   None / an optional object           <<>> / <<object>>                *)
(* A Python dict is a sequence of its values in insertion order; every    *)
(* value carries the key it is stored under.                               *)
(***************************************************************************)
EXTENDS Integers, Sequences, FiniteSets, TLC

(***************************************************************************)
(* Program constants.                                                      *)
(***************************************************************************)
UINT16_MAX == 65535
MAX_SUSPENDPACKETS == 3
VLANID_NONE == 0
VLANID_MIN == 2
VLANID_MAX == 4094
COOKIE_DEFAULT_ID == 0
DHCP_SERVER_PORT == 67
DHCP_CLIENT_PORT == 68
IDLE_TIMEOUT == 300
PRIORITY_VLAN_SHIFT == 1000
PRIORITY_NETMASK_SHIFT == 32
PRIORITY_ARP_HANDLING == 1
PRIORITY_DEFAULT_ROUTING == 1
PRIORITY_ADDRESSED_DEFAULT_ROUTING == 2
PRIORITY_MAC_LEARNING == 3
PRIORITY_STATIC_ROUTING == 3
PRIORITY_ADDRESSED_STATIC_ROUTING == 4
PRIORITY_IMPLICIT_ROUTING == 5
PRIORITY_L2_SWITCHING == 6
PRIORITY_IP_HANDLING == 7
\* the string 'priority_route', a priority type distinct from every number
PRIORITY_TYPE_ROUTE == -1

REST_ALL == <<"a", "l", "l">>
REST_OK == "success"
REST_NG == "failure"
REST_VLANID == "vlan_id"
REST_ADDRESSID == "address_id"
REST_ROUTEID == "route_id"

ZeroInt == <<0>>
None == <<>>
INADDR_ANY_BASE == <<0, 0, 0, 0>>
INADDR_BROADCAST_BASE == <<255, 255, 255, 255>>
\* the string '0.0.0.0/0' as a REST input and as a dict key
INADDR_ANY == [ip |-> <<0, 0, 0, 0>>, mask |-> 0, nparts |-> 2]
INADDR_ANY_KEY == <<INADDR_ANY_BASE, 0>>

(***************************************************************************)
(* Small helpers of the model.                                             *)
(***************************************************************************)
Min2(a, b) == IF a < b THEN a ELSE b
Max2(a, b) == IF a > b THEN a ELSE b
Pow2(n) == CASE n = 0 -> 1 [] n = 1 -> 2 [] n = 2 -> 4 [] n = 3 -> 8 [] n = 4 -> 16
             [] n = 5 -> 32 [] n = 6 -> 64 [] n = 7 -> 128 [] OTHER -> 256
SeqToSet(s) == {s[i] : i \in 1..Len(s)}
\* Python truthiness of an IP argument: the integer 0 is falsy, every
\* non-empty string (also '0.0.0.0') is truthy.
Truthy(x) == x # ZeroInt /\ x # None

(***************************************************************************)
(* Address utilities (module level functions of app.py).                   *)
(***************************************************************************)
\* socket.inet_aton + bin_to_text: a dotted string of 1..4 numbers to the
\* canonical 4 octets; ok = FALSE stands for ValueError.
ip_addr_aton(ip_str) ==
  CASE Len(ip_str) = 4 -> [ok |-> TRUE, ip |-> ip_str]
    [] Len(ip_str) = 3 -> [ok |-> TRUE, ip |-> <<ip_str[1], ip_str[2], 0, ip_str[3]>>]
    [] Len(ip_str) = 2 -> [ok |-> TRUE, ip |-> <<ip_str[1], 0, 0, ip_str[2]>>]
    [] Len(ip_str) = 1 -> [ok |-> TRUE, ip |-> <<0, 0, 0, ip_str[1]>>]
    [] OTHER -> [ok |-> FALSE, ip |-> None]

\* text form of an IP; the integer 0 formats as '0.0.0.0'
ip_addr_ntoa(ip) == IF ip = ZeroInt THEN INADDR_ANY_BASE ELSE ip

\* the 32 bits of an address as four base-256 digits
ipv4_text_to_int(ip_text) == IF ip_text = ZeroInt THEN INADDR_ANY_BASE ELSE ip_text

ipv4_int_to_text(ip_int) == ip_int

\* number of leading one-bits that a prefix length puts into octet i
OctetBits(mask, i) == Max2(0, Min2(8, mask - 8 * (i - 1)))

\* (UINT32_MAX << (32 - mask)) & UINT32_MAX as four octets; a negative shift
\* count (mask > 32) raises ValueError: ok = FALSE
mask_ntob(mask) ==
  IF mask > 32 THEN [ok |-> FALSE, bits |-> None]
  ELSE [ok |-> TRUE,
        bits |-> [i \in 1..4 |-> 256 - Pow2(8 - OctetBits(mask, i))]]

\* bitwise AND of an octet with a mask octet of the form 256 - 2^k
AndOctet(o, m) == o - (o % (256 - m))

ipv4_apply_mask(address, prefix_len) ==
  LET apply(a, m) ==
        IF m.ok
        THEN [ok |-> TRUE,
              ip |-> ipv4_int_to_text([i \in 1..4 |-> AndOctet(a[i], m.bits[i])])]
        ELSE [ok |-> FALSE, ip |-> None]
  IN  apply(ipv4_text_to_int(address), mask_ntob(prefix_len))

\* 'A.B.C.D/M' to (nw_addr, netmask, default_route); a string without '/'
\* (nparts = 1) has netmask 32; ok = FALSE stands for ValueError
nw_addr_aton(nw_addr) ==
  LET bad == [ok |-> FALSE, nw_addr |-> None, netmask |-> 0, default_route |-> None]
      masked(a, netmask, n) ==
        IF ~n.ok THEN bad
        ELSE [ok |-> TRUE, nw_addr |-> n.ip, netmask |-> netmask,
              default_route |-> a.ip]
      parsed(a, netmask) ==
        IF ~a.ok THEN bad
        ELSE IF netmask < 0 THEN bad
        ELSE masked(a, netmask, ipv4_apply_mask(a.ip, netmask))
  IN  parsed(ip_addr_aton(nw_addr.ip),
             IF nw_addr.nparts = 2 THEN nw_addr.mask ELSE 32)

(***************************************************************************)
(* 32-bit identifiers and the cookie.                                      *)
(***************************************************************************)
Id(n) == <<n \div 65536, n % 65536>>
IdZero == <<0, 0>>
\* x += 1; x &= UINT32_MAX; if x == COOKIE_DEFAULT_ID: x = 1
NextId(x) ==
  IF x[2] < UINT16_MAX THEN <<x[1], x[2] + 1>>
  ELSE IF x[1] < UINT16_MAX THEN <<x[1] + 1, 0>>
  ELSE <<0, 1>>
\* x <= y on ids
IdLeq(x, y) == x[1] < y[1] \/ (x[1] = y[1] /\ x[2] <= y[2])

cookie_to_id(id_type, cookie) ==
  CASE id_type = REST_VLANID -> cookie[1]
    [] id_type = REST_ADDRESSID -> <<cookie[2], cookie[3]>>
    [] OTHER -> <<0, cookie[2]>>

id_to_cookie_unshifted(vlan_id, id_type, rest_id) ==
  IF id_type = REST_VLANID THEN <<rest_id, 0, 0>>
  ELSE <<vlan_id, rest_id[1], rest_id[2]>>

\* vid + rest_id and vid + (rest_id << 16) with vid = vlan_id << 32: Python
\* integers do not wrap, so the upper limb of a shifted route id is added
\* into bits 63..32
id_to_cookie(vlan_id, id_type, rest_id) ==
  CASE id_type = REST_VLANID -> <<rest_id, 0, 0>>
    [] id_type = REST_ADDRESSID -> <<vlan_id, rest_id[1], rest_id[2]>>
    [] OTHER -> <<vlan_id + rest_id[1], rest_id[2], 0>>

(***************************************************************************)
(* Priorities.                                                             *)
(***************************************************************************)
get_priority_base(priority_type, vid, route) ==
  IF priority_type = PRIORITY_TYPE_ROUTE THEN PRIORITY_STATIC_ROUTING
  ELSE priority_type

get_priority(priority_type, vid, route) ==
  LET shifted(ptype, p1) ==
        IF ptype > PRIORITY_ADDRESSED_STATIC_ROUTING
        THEN p1 + PRIORITY_NETMASK_SHIFT ELSE p1
      masked(ptype, p0) ==
        shifted(ptype,
                IF vid # 0 \/ ptype = PRIORITY_IP_HANDLING
                THEN p0 + PRIORITY_VLAN_SHIFT ELSE p0)
      typed(isroute, ptype) ==
        masked(ptype,
               IF isroute /\ Truthy(route.dst_ip) THEN ptype + route.dst_netmask
               ELSE ptype)
      of(isroute) ==
        typed(isroute,
              IF isroute
              THEN IF Truthy(route.dst_ip)
                   THEN IF Truthy(route.src_ip)
                        THEN PRIORITY_ADDRESSED_STATIC_ROUTING
                        ELSE PRIORITY_STATIC_ROUTING
                   ELSE IF Truthy(route.src_ip)
                        THEN PRIORITY_ADDRESSED_DEFAULT_ROUTING
                        ELSE PRIORITY_DEFAULT_ROUTING
              ELSE priority_type)
  IN  of(priority_type = PRIORITY_TYPE_ROUTE)

get_priority_type_unshifted(priority, vid) == priority

get_priority_type(priority, vid) ==
  IF vid # 0 THEN priority - PRIORITY_VLAN_SHIFT ELSE priority

(***************************************************************************)
(* Dict helpers: a dict is the sequence of its values, each with its key.  *)
(***************************************************************************)
Indices(s, P(_)) == {i \in 1..Len(s) : P(s[i])}
FirstIdx(s, P(_)) ==
  LET I == Indices(s, P) IN CHOOSE i \in I : \A j \in I : i <= j
\* the first value satisfying P in iteration order, as an optional value
First(s, P(_)) == IF Indices(s, P) = {} THEN None ELSE <<s[FirstIdx(s, P)]>>
RemoveAt(s, i) == SubSeq(s, 1, i - 1) \o SubSeq(s, i + 1, Len(s))
\* remove the first value satisfying P (for ... if ...: del self[key]; return)
RemoveFirst(s, P(_)) ==
  IF Indices(s, P) = {} THEN s ELSE RemoveAt(s, FirstIdx(s, P))
\* self[key] = value
DictSet(s, KeyOf(_), v) ==
  IF \E i \in 1..Len(s) : KeyOf(s[i]) = KeyOf(v)
  THEN [i \in 1..Len(s) |-> IF KeyOf(s[i]) = KeyOf(v) THEN v ELSE s[i]]
  ELSE Append(s, v)

(***************************************************************************)
(* Address and AddressData.                                                *)
(***************************************************************************)
Address(address_id, nw_addr, netmask, default_gw) ==
  [address_id |-> address_id, nw_addr |-> nw_addr, netmask |-> netmask,
   default_gw |-> default_gw]

AddressKey(a) == <<ip_addr_ntoa(a.nw_addr), a.netmask>>

\* Address.__contains__
AddressContains(a, ip) == ipv4_apply_mask(ip, a.netmask).ip = a.nw_addr

AddressData_init == [addrs |-> <<>>, address_id |-> Id(1)]

AddOverlaps_one_way(other, nw_addr, mask, default_gw) ==
  other.nw_addr = ipv4_apply_mask(default_gw, other.netmask).ip

\* the overlap test of the loop in AddressData.add for one existing Address
AddOverlaps(other, nw_addr, mask, default_gw) ==
  \/ other.nw_addr = ipv4_apply_mask(default_gw, other.netmask).ip
  \/ nw_addr = ipv4_apply_mask(other.default_gw, mask).ip

\* exc: "none", "ValueError" or "CommandFailure"; data is the AddressData
\* after the call and address the Address created
AddressData_add(ad, address) ==
  LET checked(hit, new) ==
        IF hit # None
        THEN [exc |-> "CommandFailure", data |-> ad, address |-> None,
              other |-> <<hit[1].address_id>>]
        ELSE [exc |-> "none",
              data |-> [addrs |-> DictSet(ad.addrs, AddressKey, new),
                        address_id |-> NextId(ad.address_id)],
              address |-> <<new>>, other |-> None]
      parsed(p) ==
        IF ~p.ok
        THEN [exc |-> "ValueError", data |-> ad, address |-> None, other |-> None]
        ELSE checked(
               First(ad.addrs,
                     LAMBDA o : AddOverlaps(o, p.nw_addr, p.netmask,
                                            p.default_route)),
               Address(ad.address_id, p.nw_addr, p.netmask, p.default_route))
  IN  parsed(nw_addr_aton(address))

AddressData_delete(ad, address_id) ==
  [ad EXCEPT !.addrs = RemoveFirst(@, LAMBDA a : a.address_id = address_id)]

AddressData_get_default_gw(ad) == [i \in 1..Len(ad.addrs) |-> ad.addrs[i].default_gw]

AddressData_get_data_id(ad, addr_id) ==
  First(ad.addrs, LAMBDA a : a.address_id = addr_id)

AddressData_get_data_ip(ad, ip) ==
  First(ad.addrs, LAMBDA a : ipv4_apply_mask(ip, a.netmask).ip = a.nw_addr)

(***************************************************************************)
(* Route, RoutingTable and PolicyRoutingTable.                             *)
(***************************************************************************)
Route(route_id, dst_ip, dst_netmask, gateway_ip, src_address) ==
  [route_id |-> route_id, dst_ip |-> dst_ip, dst_netmask |-> dst_netmask,
   gateway_ip |-> gateway_ip, gateway_mac |-> None,
   src_ip |-> IF src_address = None THEN ZeroInt ELSE src_address[1].nw_addr,
   src_netmask |-> IF src_address = None THEN 0 ELSE src_address[1].netmask,
   key |-> <<ip_addr_ntoa(dst_ip), dst_netmask>>]

RouteKey(r) == r.key

RoutingTable_init(key, address) ==
  [key |-> key, src_address |-> address, routes |-> <<>>]

TableKey(t) == t.key

RoutingTable_add(table, dst_nw_addr, gateway_ip, route_id) ==
  LET stored(old, routing_data) ==
        IF old # None
        THEN [exc |-> "CommandFailure", table |-> table, route |-> None,
              other |-> <<old[1].route_id>>]
        ELSE [exc |-> "none",
              table |-> [table EXCEPT !.routes = DictSet(@, RouteKey, routing_data)],
              route |-> <<routing_data>>, other |-> None]
      keyed(dst_ip, dst_netmask, g, key) ==
        stored(First(table.routes, LAMBDA r : r.key = key),
               Route(route_id, dst_ip, dst_netmask, g.ip, table.src_address))
      parsed(any, p, g) ==
        IF (~any /\ ~p.ok) \/ ~g.ok
        THEN [exc |-> "ValueError", table |-> table, route |-> None, other |-> None]
        ELSE IF any THEN keyed(ZeroInt, 0, g, INADDR_ANY_KEY)
        ELSE keyed(p.nw_addr, p.netmask, g, <<ip_addr_ntoa(p.nw_addr), p.netmask>>)
  IN  parsed(dst_nw_addr = INADDR_ANY, nw_addr_aton(dst_nw_addr),
             ip_addr_aton(gateway_ip))

RoutingTable_delete(table, route_id) ==
  [table EXCEPT !.routes = RemoveFirst(@, LAMBDA r : r.route_id = route_id)]

RoutingTable_get_all_gateway_info(table) ==
  [i \in 1..Len(table.routes) |->
     <<table.routes[i].gateway_ip, table.routes[i].gateway_mac>>]

LongerMatch_last_wins(mask, route) == TRUE

\* the comparison of the longest-match loop: mask < route.dst_netmask
LongerMatch(mask, route) == mask < route.dst_netmask

\* the loop of RoutingTable.get_data over self.values(), from position i on,
\* with the loop variables get_route and mask
RECURSIVE LongestMatchLoop(_, _, _, _, _)
LongestMatchLoop(routes, dst_ip, i, get_route, mask) ==
  LET step(route) ==
        IF ipv4_apply_mask(dst_ip, route.dst_netmask).ip = route.dst_ip
           /\ LongerMatch(mask, route)
        THEN LongestMatchLoop(routes, dst_ip, i + 1, <<route>>, route.dst_netmask)
        ELSE LongestMatchLoop(routes, dst_ip, i + 1, get_route, mask)
  IN  IF i > Len(routes) THEN get_route ELSE step(routes[i])

RoutingTable_get_data(table, gw_mac, dst_ip) ==
  LET found(get_route) ==
        IF get_route = None
        THEN First(table.routes, LAMBDA r : r.key = INADDR_ANY_KEY)
        ELSE get_route
  IN  IF gw_mac # None
      THEN First(table.routes, LAMBDA r : r.gateway_mac = gw_mac)
      ELSE IF dst_ip # None
      THEN found(LongestMatchLoop(table.routes, dst_ip[1], 1, None, 0))
      ELSE None

PolicyRoutingTable_init ==
  [tables |-> <<RoutingTable_init(INADDR_ANY_KEY, None)>>, route_id |-> Id(1)]

AnyTable(prt) == First(prt.tables, LAMBDA t : t.key = INADDR_ANY_KEY)[1]

\* a table created for the source address stays in the PolicyRoutingTable
\* when RoutingTable.add raises
PolicyRoutingTable_add(prt, dst_nw_addr, gateway_ip, src_address) ==
  LET added(withtbl, r) ==
        [exc |-> r.exc,
         data |-> [tables |-> DictSet(withtbl, TableKey, r.table),
                   route_id |-> IF r.route # None THEN NextId(prt.route_id)
                                ELSE prt.route_id],
         route |-> r.route, other |-> r.other]
      tabled(key, withtbl) ==
        added(withtbl,
              RoutingTable_add(First(withtbl, LAMBDA t : t.key = key)[1],
                               dst_nw_addr, gateway_ip, prt.route_id))
      keyed(key) ==
        tabled(key,
               IF \E i \in 1..Len(prt.tables) : prt.tables[i].key = key
               THEN prt.tables
               ELSE Append(prt.tables, RoutingTable_init(key, src_address)))
  IN  keyed(IF src_address = None THEN INADDR_ANY_KEY
            ELSE <<ip_addr_ntoa(src_address[1].nw_addr), src_address[1].netmask>>)

PolicyRoutingTable_delete(prt, route_id) ==
  [prt EXCEPT !.tables =
     [i \in 1..Len(@) |-> RoutingTable_delete(@[i], route_id)]]

PolicyRoutingTable_gc_subnet_tables(prt) ==
  [prt EXCEPT !.tables =
     SelectSeq(@, LAMBDA t : t.key = INADDR_ANY_KEY \/ Len(t.routes) # 0)]

RECURSIVE Flatten(_)
Flatten(ss) == IF ss = <<>> THEN <<>> ELSE Head(ss) \o Flatten(Tail(ss))

PolicyRoutingTable_get_all_gateway_info(prt) ==
  Flatten([i \in 1..Len(prt.tables) |->
             RoutingTable_get_all_gateway_info(prt.tables[i])])

\* RoutingTable is a dict: desired_table != self[INADDR_ANY] compares contents
\* (the Route objects by identity), so two empty tables compare equal
TablesDiffer(t, any) ==
  ~(t.key = any.key \/ (Len(t.routes) = 0 /\ Len(any.routes) = 0))

PolicyRoutingTable_get_data(prt, gw_mac, dst_ip, src_ip) ==
  LET looked(desired_table, any, route) ==
        IF route = None /\ TablesDiffer(desired_table, any)
        THEN RoutingTable_get_data(any, gw_mac, dst_ip)
        ELSE route
      chosen(desired_table, any) ==
        looked(desired_table, any,
               RoutingTable_get_data(desired_table, gw_mac, dst_ip))
      picked(pick, any) == chosen(IF pick = None THEN any ELSE pick[1], any)
  IN  picked(IF src_ip = None THEN None
             ELSE First(prt.tables,
                        LAMBDA t : /\ t.src_address # None
                                   /\ t.src_address[1].nw_addr =
                                        ipv4_apply_mask(src_ip[1],
                                           t.src_address[1].netmask).ip),
             AnyTable(prt))

(***************************************************************************)
(* The datapath: OpenFlow version, number of tables, ports, and the flow   *)
(* table as the flow-mods leave it.  Port numbers, MAC addresses and the   *)
(* reserved ports (ALL, CONTROLLER, TABLE, IN_PORT) are strings.           *)
(***************************************************************************)
OFP10 == "1.0"
OFP12 == "1.2"
OFP13 == "1.3"
ETH_TYPE_IP == "IP"
ETH_TYPE_ARP == "ARP"
IPPROTO_UDP == "UDP"
ANY == "any"
OFPP_ALL == "ALL"
OFPP_CONTROLLER == "CONTROLLER"
OFPP_TABLE == "TABLE"
OFPP_IN_PORT == "IN_PORT"
ARP_REQUEST == "request"
ARP_REPLY == "reply"

\* dp.ports: port_no -> hw_addr (PortData)
PortNos == {"p1", "p2"}
PortMac(port_no) == IF port_no = "p1" THEN "mac_p1" ELSE "mac_p2"

\* A world is what a handler reads and writes: the Router's VlanRouters
\* (vr), the flow table of the switch (flows), the messages the handler has
\* emitted so far (sent), and the datapath (dp: version and n_tables).
Emit(w, msg) == [w EXCEPT !.sent = Append(@, msg)]

\* the match a flow-mod carries; wildcarded fields are ANY / 0 bits
NoNet == [ip |-> INADDR_ANY_BASE, bits |-> 0]
Net(ip, bits) == IF Truthy(ip) /\ bits > 0
                 THEN [ip |-> ipv4_text_to_int(ip), bits |-> bits] ELSE NoNet

\* OfCtl_v1_0.set_flow / OfCtl_after_v1_2.set_flow: the match built
OfMatch(dp, dl_type, dl_vlan, nw_src, src_mask, nw_dst, dst_mask, src_port, dst_port, nw_proto) ==
  LET portsok == IF dp.ver = OFP10 THEN TRUE
                 ELSE nw_proto = IPPROTO_UDP /\ dl_type = ETH_TYPE_IP
  IN  [dl_type |-> dl_type, dl_vlan |-> dl_vlan,
       nw_src |-> Net(nw_src, src_mask), nw_dst |-> Net(nw_dst, dst_mask),
       nw_proto |-> IF dp.ver = OFP10 \/ dl_type \in {ETH_TYPE_IP, ETH_TYPE_ARP}
                    THEN nw_proto ELSE ANY,
       src_port |-> IF portsok THEN src_port ELSE 0,
       dst_port |-> IF portsok THEN dst_port ELSE 0]

\* OfCtl_after_v1_2.set_flow: the table of the flow-mod
OfTableId(dp, dl_type, nw_src, nw_dst, nw_proto) ==
  IF dp.ver = OFP10 THEN 0
  ELSE IF dp.n_tables = 1 THEN 0
  ELSE IF \/ dl_type = ETH_TYPE_IP
          \/ Truthy(nw_src) \/ Truthy(nw_dst)
          \/ (nw_proto # ANY /\ dl_type = ETH_TYPE_IP)
       THEN 1 ELSE 0

\* the switch executing OFPFC_ADD: a flow with the same table, priority and
\* match is replaced
SameEntry(f, g) ==
  f.table_id = g.table_id /\ f.priority = g.priority /\ f.match = g.match
SwitchAdd(flows, flow) ==
  Append(SelectSeq(flows, LAMBDA f : ~SameEntry(f, flow)), flow)

set_flow(w, cookie, priority, dl_type, dl_vlan, nw_src, src_mask, nw_dst, dst_mask, src_port, dst_port, nw_proto, idle_timeout, actions) ==
  LET send(flow) ==
        [Emit(w, [type |-> "flow_add", flow |-> flow])
           EXCEPT !.flows = SwitchAdd(@, flow)]
  IN  send([cookie |-> cookie, priority |-> priority,
            table_id |-> OfTableId(w.dp, dl_type, nw_src, nw_dst, nw_proto),
            match |-> OfMatch(w.dp, dl_type, dl_vlan, nw_src, src_mask,
                              nw_dst, dst_mask, src_port, dst_port, nw_proto),
            idle_timeout |-> idle_timeout, actions |-> actions])

set_packetin_flow(w, cookie, priority, dl_type, dl_vlan, dst_ip, dst_mask, src_ip, src_mask) ==
  set_flow(w, cookie, priority, dl_type, dl_vlan, src_ip, src_mask, dst_ip,
           dst_mask, 0, 0, ANY, 0, <<<<"output", OFPP_CONTROLLER>>>>)

\* outport = None is a drop; dec_ttl is False at every call of the program
set_routing_flow(w, cookie, priority, outport, dl_vlan, nw_src, src_mask, nw_dst, dst_mask, src_port, dst_port, src_mac, dst_mac, nw_proto, idle_timeout) ==
  LET actions == (IF src_mac # None THEN <<<<"set_eth_src", src_mac[1]>>>> ELSE <<>>)
              \o (IF dst_mac # None THEN <<<<"set_eth_dst", dst_mac[1]>>>> ELSE <<>>)
              \o (IF outport # None THEN <<<<"output", outport[1]>>>> ELSE <<>>)
  IN  set_flow(w, cookie, priority, ETH_TYPE_IP, dl_vlan, nw_src, src_mask,
               nw_dst, dst_mask, src_port, dst_port, nw_proto, idle_timeout,
               actions)

\* a delete flow-mod that names one entry by cookie, match and priority
DeleteHits_exact(dp, flow_stats, f) ==
  /\ f.cookie = flow_stats.cookie
  /\ f.match = flow_stats.match
  /\ f.priority = flow_stats.priority

\* which flows of the switch a delete flow-mod removes: OFPFC_DELETE_STRICT
\* with the match and priority of the stats entry (1.0), OFPFC_DELETE with
\* the cookie under a full cookie mask and an empty match (1.2, 1.3)
DeleteHits(dp, flow_stats, f) ==
  IF dp.ver = OFP10
  THEN f.match = flow_stats.match /\ f.priority = flow_stats.priority
  ELSE f.cookie = flow_stats.cookie

delete_flow(w, flow_stats) ==
  [Emit(w, [type |-> "flow_del", flow |-> flow_stats])
     EXCEPT !.flows = SelectSeq(@, LAMBDA f : ~DeleteHits(w.dp, flow_stats, f))]

\* dp.send_packet_out with one output action
send_packet_out(w, in_port, output, data) ==
  Emit(w, [type |-> "packet_out", in_port |-> in_port, output |-> output,
           data |-> data])

\* the ARP packet built by OfCtl.send_arp
send_arp(w, arp_opcode, vlan_id, src_mac, dst_mac, src_ip, dst_ip, arp_target_mac, in_port, output) ==
  send_packet_out(w, in_port, output,
    [proto |-> "arp", vlan |-> vlan_id, opcode |-> arp_opcode,
     eth_src |-> src_mac, eth_dst |-> dst_mac, src_mac |-> src_mac,
     src_ip |-> src_ip, dst_mac |-> arp_target_mac, dst_ip |-> dst_ip])

(***************************************************************************)
(* Flow statistics.  get_all_flow blocks in send_stats_request until the   *)
(* last reply fragment or OFP_REPLY_TIMER; what it returns is decided by   *)
(* the switch.  The world carries an oracle, one outcome per call:         *)
(*   "reply"    every fragment arrived: all flows of the switch            *)
(*   "timeout"  no fragment arrived in time: the empty list                *)
(*   "partial"  the timer ran out after a first fragment flagged 'more'    *)
(* A call beyond the oracle gets a full reply.                             *)
(***************************************************************************)
StatsOutcomes == {"reply", "timeout", "partial"}

\* a list that holds every flow also when the timer ran out
StatsResult_complete(flows, outcome) == flows

StatsResult(flows, outcome) ==
  CASE outcome = "reply" -> flows
    [] outcome = "timeout" -> <<>>
    [] OTHER -> SubSeq(flows, 1, (Len(flows) + 1) \div 2)

get_all_flow(w) ==
  LET outcome == IF w.oracle = <<>> THEN "reply" ELSE Head(w.oracle)
  IN  [w |-> [w EXCEPT !.oracle = IF @ = <<>> THEN <<>> ELSE Tail(@)],
       msgs |-> StatsResult(w.flows, outcome)]

(***************************************************************************)
(* The waiters of the flow-stats replies.  PlexusController.waiters maps a *)
(* datapath id to a dict from XID to the pair (event, msgs) of one call of *)
(* send_stats_request.  The pair is an object shared by the dict and the   *)
(* caller: a call is a record                                              *)
(*   dp_id, xid   the datapath and the XID set_xid gave the request        *)
(*   msgs         the list the handler appends to, oldest fragment first   *)
(*   set          how many times event.set() was called                    *)
(*   pc           "wait" inside event.wait, "returned" afterwards          *)
(*   how          "event" or "timeout": what ended the wait                *)
(*   result       what the caller read from the list it was returned       *)
(* and a waiters entry holds the index of its call.  A fragment is a       *)
(* record [dp_id, xid, more, seq]; seq numbers the fragments by arrival.   *)
(***************************************************************************)
StatsDps == {1, 2}

FirstXid == 1

MapSet(f, k, v) == [y \in DOMAIN f \cup {k} |-> IF y = k THEN v ELSE f[y]]

MapDel(f, k) == [y \in DOMAIN f \ {k} |-> f[y]]

Pending(ws, d, x) == d \in DOMAIN ws /\ x \in DOMAIN ws[d]

\* OfCtl.send_stats_request up to event.wait: the request gets the XID x
send_stats_request(ws, cs, d, x) ==
  LET waiters_per_dp == IF d \in DOMAIN ws THEN ws[d] ELSE <<>>
      call == [dp_id |-> d, xid |-> x, msgs |-> <<>>, set |-> 0,
               pc |-> "wait", how |-> "none", result |-> <<>>]
  IN  [waiters |-> MapSet(ws, d, MapSet(waiters_per_dp, x, Len(cs) + 1)),
       calls |-> Append(cs, call)]

\* a handler that looks the XID up without the datapath id
stats_reply_handler_by_xid(ws, cs, msg) ==
  IF \A d \in DOMAIN ws : msg.xid \notin DOMAIN ws[d]
  THEN [waiters |-> ws, calls |-> cs]
  ELSE LET d == CHOOSE e \in DOMAIN ws : msg.xid \in DOMAIN ws[e]
           c == ws[d][msg.xid]
           appended == [cs EXCEPT ![c].msgs = Append(@, msg)]
       IN  IF msg.more
           THEN [waiters |-> ws, calls |-> appended]
           ELSE [waiters |-> [ws EXCEPT ![d] = MapDel(@, msg.xid)],
                 calls |-> [appended EXCEPT ![c].set = @ + 1]]

\* PlexusController._stats_reply_handler on the fragment msg
stats_reply_handler(ws, cs, msg) ==
  IF ~Pending(ws, msg.dp_id, msg.xid)
  THEN [waiters |-> ws, calls |-> cs]
  ELSE LET c == ws[msg.dp_id][msg.xid]
           appended == [cs EXCEPT ![c].msgs = Append(@, msg)]
       IN  IF msg.more
           THEN [waiters |-> ws, calls |-> appended]
           ELSE [waiters |-> [ws EXCEPT ![msg.dp_id] = MapDel(@, msg.xid)],
                 calls |-> [appended EXCEPT ![c].set = @ + 1]]

\* OfCtl.send_stats_request from event.wait on: the wait of call c ends,
\* by the event or by OFP_REPLY_TIMER, and the caller reads the list.
\* Event.wait of ryu.lib.hub catches its own Timeout and returns the flag,
\* so the except clause is not entered (raises = FALSE); raises = TRUE is
\* the wait of a hub that lets the Timeout out.
send_stats_request_return(ws, cs, c, how, raises) ==
  LET d == cs[c].dp_id
      x == cs[c].xid
  IN  [waiters |-> IF how = "timeout" /\ raises
                   THEN [ws EXCEPT ![d] = MapDel(@, x)] ELSE ws,
       calls |-> [cs EXCEPT ![c].pc = "returned", ![c].how = how,
                            ![c].result = cs[c].msgs]]

(***************************************************************************)
(* SuspendPacketList.  A SuspendPacket is an object: tid names it and its  *)
(* wait thread; threads is the set of wait threads that are alive.         *)
(***************************************************************************)
FreeTid(vrt) ==
  CHOOSE t \in 1..(Len(vrt.packet_buffer) + 1) :
    /\ \A i \in 1..Len(vrt.packet_buffer) : vrt.packet_buffer[i].tid # t
    /\ \A u \in 1..(t - 1) : \E i \in 1..Len(vrt.packet_buffer) :
                                vrt.packet_buffer[i].tid = u

\* SuspendPacketList.add: SuspendPacket(...) spawns the timer thread
\* a list that appends the packet without spawning its wait thread
SuspendPacketList_add_untimed(vrt, in_port, header_list, data) ==
  [vrt EXCEPT !.packet_buffer =
     Append(@, [in_port |-> in_port, dst_ip |-> header_list.dst,
                header_list |-> header_list, data |-> data,
                tid |-> FreeTid(vrt)])]

SuspendPacketList_add(vrt, in_port, header_list, data) ==
  LET tid == FreeTid(vrt)
      pkt == [in_port |-> in_port, dst_ip |-> header_list.dst,
              header_list |-> header_list, data |-> data, tid |-> tid]
  IN  [vrt EXCEPT !.packet_buffer = Append(@, pkt),
                  !.threads = @ \cup {tid}]

\* SuspendPacketList.delete(pkt=...): remove, kill and wait
SuspendPacketList_delete_pkt(vrt, tid) ==
  [vrt EXCEPT !.packet_buffer = SelectSeq(@, LAMBDA p : p.tid # tid),
              !.threads = @ \ {tid}]

\* a deletion of an Address that leaves the suspend list alone
SuspendPacketList_delete_addr_kept(vrt, del_addr) == vrt

\* SuspendPacketList.delete(del_addr=...)
SuspendPacketList_delete_addr(vrt, del_addr) ==
  LET gone == {vrt.packet_buffer[i].tid : i \in
                 {j \in 1..Len(vrt.packet_buffer) :
                    AddressContains(del_addr, vrt.packet_buffer[j].dst_ip)}}
  IN  [vrt EXCEPT !.packet_buffer = SelectSeq(@, LAMBDA p : p.tid \notin gone),
                  !.threads = @ \ gone]

SuspendPacketList_get_data(vrt, dst_ip) ==
  SelectSeq(vrt.packet_buffer, LAMBDA p : p.dst_ip = dst_ip)

(***************************************************************************)
(* VlanRouter.                                                             *)
(***************************************************************************)
PortSeq == <<"p1", "p2">>
BROADCAST_STR == "ff:ff:ff:ff:ff:ff"
DONTCARE_STR == "00:00:00:00:00:00"

RECURSIVE SendArpLoop(_, _, _, _, _, _)
SendArpLoop(w, vlan_id, src_ip, dst_ip, in_port, i) ==
  IF i > Len(PortSeq) THEN w
  ELSE LET port_no == PortSeq[i]
           w1 == IF in_port = None \/ in_port[1] # port_no
                 THEN send_arp(w, ARP_REQUEST, vlan_id, PortMac(port_no),
                               BROADCAST_STR, src_ip, dst_ip, DONTCARE_STR,
                               OFPP_CONTROLLER, port_no)
                 ELSE w
       IN  SendArpLoop(w1, vlan_id, src_ip, dst_ip, in_port, i + 1)

send_arp_request_skip_first(w, vlan_id, src_ip, dst_ip, in_port) ==
  SendArpLoop(w, vlan_id, src_ip, dst_ip, in_port, 2)

send_arp_request(w, vlan_id, src_ip, dst_ip, in_port) ==
  SendArpLoop(w, vlan_id, src_ip, dst_ip, in_port, 1)

set_defaultroute_drop(w, vlan_id) ==
  set_routing_flow(w, id_to_cookie(vlan_id, REST_VLANID, vlan_id),
                   get_priority(PRIORITY_DEFAULT_ROUTING, vlan_id, None),
                   None, vlan_id, ZeroInt, 32, ZeroInt, 32, 0, 0, None, None,
                   ANY, 0)

\* VlanRouter.__init__, stored by the caller under Router[vlan_id]
VlanRouter_init(w, vlan_id, bare) ==
  LET stored(w1) == IF bare THEN w1 ELSE set_defaultroute_drop(w1, vlan_id)
  IN  stored([w EXCEPT !.vr =
                (vlan_id :> [vlan_id |-> vlan_id, bare |-> bare,
                             address_data |-> AddressData_init,
                             policy_routing_tbl |-> PolicyRoutingTable_init,
                             packet_buffer |-> <<>>, threads |-> {}]) @@ @])

set_route_packetin(w, vlan_id, route) ==
  set_packetin_flow(w, id_to_cookie(vlan_id, REST_ROUTEID, route.route_id),
                    get_priority(PRIORITY_TYPE_ROUTE, vlan_id, route),
                    ETH_TYPE_IP, vlan_id, route.dst_ip, route.dst_netmask,
                    route.src_ip, route.src_netmask)

\* returns the world, the exception raised ("none" if none) and the id
set_address_data(w, vlan_id, address) ==
  LET installed(a, cookie, w1) ==
        send_arp_request(
          set_packetin_flow(
            set_packetin_flow(w1, cookie,
              get_priority(PRIORITY_MAC_LEARNING, vlan_id, None),
              ETH_TYPE_IP, vlan_id, a.nw_addr, a.netmask, ZeroInt, 32),
            cookie, get_priority(PRIORITY_IP_HANDLING, vlan_id, None),
            ETH_TYPE_IP, vlan_id, a.default_gw, 32, ZeroInt, 32),
          vlan_id, a.default_gw, a.default_gw, None)
      added(r) ==
        IF r.exc # "none"
        THEN [w |-> w, exc |-> r.exc, id |-> None, why |-> "Address overlaps",
              other |-> r.other]
        ELSE [w |-> installed(r.address[1],
                      id_to_cookie(vlan_id, REST_ADDRESSID, r.address[1].address_id),
                      [w EXCEPT !.vr[vlan_id].address_data = r.data]),
              exc |-> "none", id |-> <<r.address[1].address_id>>, why |-> "",
              other |-> None]
  IN  added(AddressData_add(w.vr[vlan_id].address_data, address))

GatewayAccepted_any_host(address, dst_ip) == address # None

\* the check of the gateway in _set_routing_data: the gateway lies in a
\* registered Address and is not that Address's default_gw
GatewayAccepted(address, dst_ip) ==
  address # None /\ dst_ip # address[1].default_gw

\* address_id: None (key absent), REST_ALL, an id, or <<"x">> (no integer)
set_routing_data(w, vlan_id, destination, gateway, address_id) ==
  LET fail(exc, why) == [w |-> w, exc |-> exc, id |-> None, why |-> why,
                         other |-> None]
      added(address, dst_ip, r, w1) ==
        IF r.exc # "none"
        THEN [w |-> w1, exc |-> r.exc, id |-> None,
              why |-> IF r.exc = "ValueError" THEN "Invalid destination"
                      ELSE "Destination overlaps",
              other |-> r.other]
        ELSE [w |-> send_arp_request(set_route_packetin(w1, vlan_id, r.route[1]),
                      vlan_id, address[1].default_gw, dst_ip, None),
              exc |-> "none", id |-> <<r.route[1].route_id>>, why |-> "",
              other |-> None]
      add(address, dst_ip, r) ==
        added(address, dst_ip, r,
              [w EXCEPT !.vr[vlan_id].policy_routing_tbl = r.data])
      checked(g, address, byid, requested_address) ==
        IF byid /\ Len(address_id) # 2
        THEN fail("ValueError", "Invalid address_id")
        ELSE IF byid /\ requested_address = None
        THEN fail("CommandFailure", "Requested address is not registered")
        ELSE IF address = None
        THEN fail("CommandFailure", "Gateway's address is not registered")
        ELSE IF ~GatewayAccepted(address, g.ip)
        THEN fail("CommandFailure", "Gateway is used as default gateway")
        ELSE add(address, g.ip,
                 PolicyRoutingTable_add(w.vr[vlan_id].policy_routing_tbl,
                                        destination, gateway, requested_address))
      parsed(g, byid) ==
        IF ~g.ok THEN fail("ValueError", "Invalid gateway")
        ELSE checked(g, AddressData_get_data_ip(w.vr[vlan_id].address_data, g.ip),
               byid,
               IF byid /\ Len(address_id) = 2
               THEN AddressData_get_data_id(w.vr[vlan_id].address_data, address_id)
               ELSE None)
  IN  parsed(ip_addr_aton(gateway), address_id # None /\ address_id # REST_ALL)

\* VlanRouter._response: the VLAN id is added for a tagged VLAN
Response(vlan_id, msg) ==
  IF msg.result # "" /\ vlan_id # 0 THEN [msg EXCEPT !.vlan_id = vlan_id] ELSE msg

Msg(result, details, ids, skip) ==
  [result |-> result, details |-> details, ids |-> ids, skip |-> skip,
   vlan_id |-> 0]
\* the empty dict {} returned by a delete that found nothing
NoMsg == Msg("", "", <<>>, <<>>)

\* VlanRouter.set_data: returns the world, the exception that leaves the
\* method ("none" or "ValueError") and the message returned
VlanRouter_set_data(w, vlan_id, data) ==
  LET done(r, details) ==
        CASE r.exc = "CommandFailure" ->
               [w |-> r.w, exc |-> "none",
                msg |-> Response(vlan_id, Msg(REST_NG, r.why, <<>>, <<>>))]
          [] r.exc = "ValueError" ->
               [w |-> r.w, exc |-> "ValueError", msg |-> NoMsg]
          [] OTHER ->
               [w |-> r.w, exc |-> "none",
                msg |-> Response(vlan_id, Msg(REST_OK, details, r.id, <<>>))]
  IN  IF "address" \in data.keys
      THEN done(set_address_data(w, vlan_id, data.address), "Add address")
      ELSE IF "gateway" \in data.keys
      THEN done(set_routing_data(w, vlan_id,
                  IF "destination" \in data.keys THEN data.destination
                  ELSE INADDR_ANY,
                  data.gateway,
                  IF "address_id" \in data.keys THEN data.address_id ELSE None),
                "Add route")
      ELSE IF "dhcp_servers" \in data.keys
      THEN [w |-> w, exc |-> "none",
            msg |-> Response(vlan_id, Msg(REST_OK, "DHCP server(s) set", <<>>, <<>>))]
      ELSE [w |-> w, exc |-> "ValueError", msg |-> NoMsg]

\* an id is in a Python list of ids
InList(x, list) == \E i \in 1..Len(list) : list[i] = x

\* VlanRouter._chk_addr_relation_route: the loop over the gateways
RECURSIVE ChkRelationLoop(_, _, _, _, _)
ChkRelationLoop(ad, gateways, address_id, i, relate_list) ==
  IF i > Len(gateways) THEN relate_list
  ELSE LET address == AddressData_get_data_ip(ad, gateways[i][1])
       IN  IF address = None
           THEN ChkRelationLoop(ad, gateways, address_id, i + 1, relate_list)
           ELSE IF address_id = REST_ALL /\ ~InList(address[1].address_id, relate_list)
           THEN ChkRelationLoop(ad, gateways, address_id, i + 1,
                                Append(relate_list, address[1].address_id))
           ELSE IF address[1].address_id = address_id
           THEN <<address_id>>
           ELSE ChkRelationLoop(ad, gateways, address_id, i + 1, relate_list)

chk_addr_relation_route_none(vrt, address_id) == <<>>

chk_addr_relation_route(vrt, address_id) ==
  ChkRelationLoop(vrt.address_data,
                  PolicyRoutingTable_get_all_gateway_info(vrt.policy_routing_tbl),
                  address_id, 1, <<>>)

\* _delete_address_data: does the first loop put this stats entry on
\* delete_list
AddressFlowSelected(vlan_id, address_id, skip_ids, stats) ==
  LET addr_id == cookie_to_id(REST_ADDRESSID, stats.cookie)
  IN  /\ cookie_to_id(REST_VLANID, stats.cookie) = vlan_id
      /\ ~InList(addr_id, skip_ids)
      /\ IF address_id = REST_ALL
         THEN ~(addr_id = IdZero \/ addr_id[1] > 0)
         ELSE address_id = addr_id

\* _delete_address_data: the second loop, over delete_list
RECURSIVE DeleteAddressLoop(_, _, _, _, _)
DeleteAddressLoop(w, vlan_id, delete_list, i, delete_ids) ==
  LET found(w1, address_id, del_address) ==
        IF del_address = None
        THEN DeleteAddressLoop(w1, vlan_id, delete_list, i + 1, delete_ids)
        ELSE DeleteAddressLoop(
               [w1 EXCEPT !.vr[vlan_id] =
                  [SuspendPacketList_delete_addr(@, del_address[1])
                     EXCEPT !.address_data = AddressData_delete(@, address_id)]],
               vlan_id, delete_list, i + 1,
               IF InList(address_id, delete_ids) THEN delete_ids
               ELSE Append(delete_ids, address_id))
      deleted(w1, address_id) ==
        found(w1, address_id,
              AddressData_get_data_id(w1.vr[vlan_id].address_data, address_id))
  IN  IF i > Len(delete_list) THEN [w |-> w, delete_ids |-> delete_ids]
      ELSE deleted(delete_flow(w, delete_list[i]),
                   cookie_to_id(REST_ADDRESSID, delete_list[i].cookie))

\* returns the world, the exception, the message ({} is NoMsg), and what the
\* method worked with: skip_ids and the stats entries it received
delete_address_data(w, vlan_id, address_id) ==
  LET done(skip_ids, g, d) ==
        [w |-> d.w, exc |-> "none",
         msg |-> IF d.delete_ids # <<>>
                 THEN Msg(REST_OK,
                          IF skip_ids # <<>> THEN "Delete address, Skip delete"
                          ELSE "Delete address", d.delete_ids, skip_ids)
                 ELSE IF skip_ids # <<>>
                 THEN Msg(REST_NG, "Skip delete", <<>>, skip_ids)
                 ELSE NoMsg,
         stats |-> g.msgs]
      listed(skip_ids, g) ==
        done(skip_ids, g,
             DeleteAddressLoop(g.w, vlan_id,
               SelectSeq(g.msgs,
                         LAMBDA st : AddressFlowSelected(vlan_id, address_id,
                                                         skip_ids, st)),
               1, <<>>))
  IN  IF address_id # REST_ALL /\ Len(address_id) # 2
      THEN [w |-> w, exc |-> "ValueError", msg |-> NoMsg, stats |-> <<>>]
      ELSE IF w.frame # None
      THEN listed(w.frame[1].skip_ids, [w |-> w, msgs |-> w.frame[1].stats])
      ELSE listed(chk_addr_relation_route(w.vr[vlan_id], address_id),
                  get_all_flow(w))

\* _delete_routing_data: does the first loop put this stats entry on
\* delete_list
RouteFlowSelected(vlan_id, route_id, stats) ==
  LET rt_id == cookie_to_id(REST_ROUTEID, stats.cookie)
  IN  /\ cookie_to_id(REST_VLANID, stats.cookie) = vlan_id
      /\ IF route_id = REST_ALL THEN rt_id # IdZero ELSE route_id = rt_id

RECURSIVE DeleteRouteLoop(_, _, _, _, _)
DeleteRouteLoop(w, vlan_id, delete_list, i, delete_ids) ==
  LET removed(flow_stats, route_id, w2) ==
        DeleteRouteLoop(
          IF get_priority_type(flow_stats.priority, vlan_id)
               = PRIORITY_DEFAULT_ROUTING
          THEN set_defaultroute_drop(w2, vlan_id) ELSE w2,
          vlan_id, delete_list, i + 1,
          IF InList(route_id, delete_ids) THEN delete_ids
          ELSE Append(delete_ids, route_id))
      deleted(flow_stats, route_id, w1) ==
        removed(flow_stats, route_id,
                [w1 EXCEPT !.vr[vlan_id].policy_routing_tbl =
                   PolicyRoutingTable_delete(@, route_id)])
  IN  IF i > Len(delete_list) THEN [w |-> w, delete_ids |-> delete_ids]
      ELSE deleted(delete_list[i],
                   cookie_to_id(REST_ROUTEID, delete_list[i].cookie),
                   delete_flow(w, delete_list[i]))

delete_routing_data(w, vlan_id, route_id) ==
  LET done(g, d) ==
        [w |-> d.w, exc |-> "none",
         msg |-> IF d.delete_ids # <<>>
                 THEN Msg(REST_OK, "Delete route", d.delete_ids, <<>>)
                 ELSE NoMsg,
         stats |-> g.msgs]
      listed(g) ==
        done(g, DeleteRouteLoop(g.w, vlan_id,
                  SelectSeq(g.msgs,
                            LAMBDA st : RouteFlowSelected(vlan_id, route_id, st)),
                  1, <<>>))
  IN  IF route_id # REST_ALL /\ Len(route_id) # 2
      THEN [w |-> w, exc |-> "ValueError", msg |-> NoMsg, stats |-> <<>>]
      ELSE listed(get_all_flow(w))

VlanRouter_delete_data(w, vlan_id, data) ==
  LET done(r) == [r EXCEPT !.msg = Response(vlan_id, @)]
  IN  IF "route_id" \in data.keys
      THEN done(delete_routing_data(w, vlan_id, data.route_id))
      ELSE IF "address_id" \in data.keys
      THEN done(delete_address_data(w, vlan_id, data.address_id))
      ELSE [w |-> w, exc |-> "ValueError", msg |-> NoMsg, stats |-> <<>>]

\* VlanRouter.delete: the flows of the VLAN are deleted, then the assertion
\* on the suspend list; exc is "AssertionError" when it fails
VlanRouter_delete(w, vlan_id) ==
  LET asserted(w1) ==
        [w |-> w1,
         exc |-> IF Len(w1.vr[vlan_id].packet_buffer) = 0 THEN "none"
                 ELSE "AssertionError"]
      deleted(w0, mine) ==
        LET F[i \in 0..Len(mine)] ==
              IF i = 0 THEN w0 ELSE delete_flow(F[i - 1], mine[i])
        IN  asserted(F[Len(mine)])
      listed(g) ==
        deleted(g.w,
                SelectSeq(g.msgs,
                  LAMBDA st : cookie_to_id(REST_VLANID, st.cookie) = vlan_id))
  IN  listed(get_all_flow(w))

(***************************************************************************)
(* Router.                                                                 *)
(***************************************************************************)
\* the VlanRouters of the Router in iteration order
RECURSIVE SortedSeq(_)
SortedSeq(S) ==
  IF S = {} THEN <<>>
  ELSE LET m == CHOOSE x \in S : \A y \in S : x <= y
       IN  <<m>> \o SortedSeq(S \ {m})

\* Router._get_vlan_router: the vlan ids of the VlanRouters selected; exc is
\* "ValueError" for a vlan id outside {0} and [VLANID_MIN, VLANID_MAX]
VlanIdValid(vlan_id) ==
  ~(vlan_id # VLANID_NONE /\ (vlan_id < VLANID_MIN \/ VLANID_MAX < vlan_id))

get_vlan_router(w, vlan_id) ==
  IF vlan_id = REST_ALL
  THEN [exc |-> "none", vids |-> SortedSeq(DOMAIN w.vr)]
  ELSE IF ~VlanIdValid(vlan_id[1])
  THEN [exc |-> "ValueError", vids |-> <<>>]
  ELSE [exc |-> "none",
        vids |-> IF vlan_id[1] \in DOMAIN w.vr THEN <<vlan_id[1]>> ELSE <<>>]

\* Router._del_vlan_router
VlanRouterEmpty(vrt) ==
  /\ Len(vrt.address_data.addrs) = 0
  /\ Len(vrt.policy_routing_tbl.tables) = 1
  /\ Len(AnyTable(vrt.policy_routing_tbl).routes) = 0

del_vlan_router(w, vlan_id) ==
  LET removed(d) ==
        IF d.exc # "none" THEN d
        ELSE [w |-> [d.w EXCEPT !.vr = [v \in (DOMAIN @) \ {vlan_id} |-> @[v]]],
              exc |-> "none"]
      collected(w1) ==
        IF ~VlanRouterEmpty(w1.vr[vlan_id]) THEN [w |-> w1, exc |-> "none"]
        ELSE removed(VlanRouter_delete(w1, vlan_id))
  IN  IF vlan_id = VLANID_NONE THEN [w |-> w, exc |-> "none"]
      ELSE collected([w EXCEPT !.vr[vlan_id].policy_routing_tbl =
                        PolicyRoutingTable_gc_subnet_tables(@)])

VlanRouterBare_never(vrt) == FALSE

\* the test of Router.set_data on a selected VlanRouter: vlan_router.bare
VlanRouterBare(vrt) == vrt.bare

\* Router.set_data: the loop over the selected VlanRouters.  A ValueError of
\* VlanRouter.set_data is raised again after _del_vlan_router.
RECURSIVE SetDataLoop(_, _, _, _, _)
SetDataLoop(w, vids, i, param, msgs) ==
  LET checked(r, d, msgs1) ==
        IF d.exc # "none" THEN [w |-> d.w, exc |-> d.exc, msgs |-> msgs1]
        ELSE IF r.exc # "none" THEN [w |-> d.w, exc |-> r.exc, msgs |-> msgs1]
        ELSE SetDataLoop(d.w, vids, i + 1, param, msgs1)
      set(r) ==
        checked(r,
                IF r.exc = "ValueError" \/ r.msg.result = REST_NG
                THEN del_vlan_router(r.w, vids[i])
                ELSE [w |-> r.w, exc |-> "none"],
                IF r.exc = "none" THEN Append(msgs, r.msg) ELSE msgs)
  IN  IF i > Len(vids) THEN [w |-> w, exc |-> "none", msgs |-> msgs]
      ELSE IF VlanRouterBare(w.vr[vids[i]])
      THEN SetDataLoop(w, vids, i + 1, param, msgs)
      ELSE set(VlanRouter_set_data(w, vids[i], param))

\* the local variable bare of Router.set_data is assigned only under
\* 'if REST_BARE in param'; reading it unassigned raises UnboundLocalError,
\* a NameError.  bound = FALSE stands for the unassigned variable.
BareOfParam(param) ==
  IF "bare" \in param.keys THEN [bound |-> TRUE, value |-> param.bare]
  ELSE [bound |-> FALSE, value |-> FALSE]

Router_set_data(w, vlan_id, param) ==
  LET selected(sel, bare) ==
        IF sel.exc # "none" THEN [w |-> w, exc |-> sel.exc, msgs |-> <<>>]
        ELSE IF sel.vids # <<>> THEN SetDataLoop(w, sel.vids, 1, param, <<>>)
        ELSE IF ~bare.bound THEN [w |-> w, exc |-> "NameError", msgs |-> <<>>]
        ELSE SetDataLoop(VlanRouter_init(w, vlan_id[1], bare.value),
                         <<vlan_id[1]>>, 1, param, <<>>)
  IN  selected(get_vlan_router(w, vlan_id), BareOfParam(param))

\* Router.delete_data: the loop over the selected VlanRouters
RECURSIVE DeleteDataLoop(_, _, _, _, _)
DeleteDataLoop(w, vids, i, param, msgs) ==
  LET checked(d, msgs1) ==
        IF d.exc # "none" THEN [w |-> d.w, exc |-> d.exc, msgs |-> msgs1]
        ELSE DeleteDataLoop(d.w, vids, i + 1, param, msgs1)
      deleted(r) ==
        IF r.exc # "none" THEN [w |-> r.w, exc |-> r.exc, msgs |-> msgs]
        ELSE checked(del_vlan_router(r.w, vids[i]),
                     IF r.msg.result # "" THEN Append(msgs, r.msg) ELSE msgs)
  IN  IF i > Len(vids) THEN [w |-> w, exc |-> "none", msgs |-> msgs]
      ELSE deleted(VlanRouter_delete_data(w, vids[i], param))

Router_delete_data(w, vlan_id, param) ==
  LET done(r) ==
        IF r.exc = "none" /\ r.msgs = <<>>
        THEN [r EXCEPT !.msgs = <<Msg(REST_NG, "Data is nothing.", <<>>, <<>>)>>]
        ELSE r
      selected(sel) ==
        IF sel.exc # "none" THEN [w |-> w, exc |-> sel.exc, msgs |-> <<>>]
        ELSE done(DeleteDataLoop(w, sel.vids, 1, param, <<>>))
  IN  selected(get_vlan_router(w, vlan_id))

\* VlanRouter.get_data: the addresses and the routes as they are rendered
VlanRouter_get_data(vrt) ==
  LET ad == vrt.address_data.addrs
      rts == Flatten([i \in 1..Len(vrt.policy_routing_tbl.tables) |->
                        vrt.policy_routing_tbl.tables[i].routes])
  IN  [vlan_id |-> IF ad = <<>> /\ rts = <<>> THEN 0 ELSE vrt.vlan_id,
       address |-> [i \in 1..Len(ad) |->
                      [address_id |-> ad[i].address_id,
                       address |-> <<ip_addr_ntoa(ad[i].default_gw), ad[i].netmask>>]],
       route |-> [i \in 1..Len(rts) |->
                    [route_id |-> rts[i].route_id,
                     destination |-> rts[i].key,
                     gateway |-> ip_addr_ntoa(rts[i].gateway_ip),
                     gateway_mac |-> rts[i].gateway_mac,
                     source |-> <<ip_addr_ntoa(rts[i].src_ip), rts[i].src_netmask>>]]]

Router_get_data(w, vlan_id) ==
  LET selected(sel) ==
        IF sel.exc # "none" THEN [w |-> w, exc |-> sel.exc, msgs |-> <<>>]
        ELSE IF sel.vids = <<>>
        THEN [w |-> w, exc |-> "none",
              msgs |-> <<[vlan_id |-> vlan_id[1], address |-> <<>>,
                          route |-> <<>>]>>]
        ELSE [w |-> w, exc |-> "none",
              msgs |-> [i \in 1..Len(sel.vids) |->
                          VlanRouter_get_data(w.vr[sel.vids[i]])]]
  IN  selected(get_vlan_router(w, vlan_id))

\* rest_command: the HTTP status of the response for the way the handler
\* ended; an exception it does not catch leaves the request without a
\* response of the application (status 500)
rest_command(exc) ==
  CASE exc = "none" -> 200
    [] exc \in {"SyntaxError", "ValueError", "NameError"} -> 400
    [] exc = "NotFoundError" -> 404
    [] OTHER -> 500

(***************************************************************************)
(* Packet-in handling.  A packet is the record of its headers:             *)
(*   proto "arp":  eth_src, eth_dst, opcode, src_mac, src (IP), dst (IP)   *)
(*   proto "ipv4": eth_src, eth_dst, src, dst, l4                          *)
(* (the fields a protocol does not have hold "").  A packet-in message is  *)
(* [in_port, reason, pkt].                                                 *)
(***************************************************************************)
ICMP_ECHO_REQUEST == "icmp_echo_request"
ICMP_ECHO_REPLY == "icmp_echo_reply"
ICMP_DEST_UNREACH == "icmp_dest_unreach"
ICMP_TIME_EXCEEDED == "icmp_time_exceeded"

\* OfCtl.send_icmp: the ICMP packet answers protocol_list; its IP source is
\* src_ip if given, else the destination of the packet answered
send_icmp(w, in_port, protocol_list, vlan_id, icmp_type, icmp_code, src_ip) ==
  send_packet_out(w, in_port, OFPP_IN_PORT,
    [proto |-> "icmp", vlan |-> vlan_id, type |-> icmp_type, code |-> icmp_code,
     eth_src |-> protocol_list.eth_dst, eth_dst |-> protocol_list.eth_src,
     src_ip |-> IF src_ip = None THEN protocol_list.dst ELSE src_ip[1],
     dst_ip |-> protocol_list.src, ttl |-> 64, answers |-> protocol_list])

\* a lookup by the source IP alone
get_send_port_ip_by_source(vrt, header_list) ==
  LET of_address(address) ==
        IF address # None THEN <<address[1].default_gw>> ELSE None
  IN  of_address(AddressData_get_data_ip(vrt.address_data, header_list.src))

\* VlanRouter._get_send_port_ip
get_send_port_ip(vrt, header_list) ==
  LET of_gateway(gw_address) ==
        IF gw_address # None THEN <<gw_address[1].default_gw>> ELSE None
      of_route(route) ==
        IF route # None
        THEN of_gateway(AddressData_get_data_ip(vrt.address_data,
                                                route[1].gateway_ip))
        ELSE None
      of_address(address) ==
        IF address # None THEN <<address[1].default_gw>>
        ELSE of_route(PolicyRoutingTable_get_data(vrt.policy_routing_tbl,
                        <<header_list.eth_src>>, None, <<header_list.src>>))
  IN  of_address(AddressData_get_data_ip(vrt.address_data, header_list.src))

GatewayMacLearned_from_any(value, pkt) == value.gateway_mac # <<pkt.src_mac>>

\* _update_routing_tbls: the Route value takes the sender's MAC as gateway_mac
GatewayMacLearned(value, pkt) ==
  value.gateway_ip = pkt.src /\ value.gateway_mac # <<pkt.src_mac>>

\* VlanRouter._update_routing_tbls: the two nested loops, over the routes
\* of table t from position i on
RECURSIVE UpdateRoutingLoop(_, _, _, _, _, _)
UpdateRoutingLoop(w, vlan_id, msg, default_route, t, i) ==
  LET installed(value, cookie, priority, w2) ==
        IF default_route # None
           /\ default_route[1].gateway_ip = value.gateway_ip
        THEN set_routing_flow(w2, cookie, priority, <<msg.in_port>>,
               vlan_id, INADDR_ANY_BASE, 32, INADDR_BROADCAST_BASE,
               32, DHCP_CLIENT_PORT, DHCP_SERVER_PORT, None, None,
               IPPROTO_UDP, 0)
        ELSE w2
      learned(value, cookie, priority) ==
        installed(value, cookie, priority,
          set_routing_flow(
            [w EXCEPT !.vr[vlan_id].policy_routing_tbl.tables[t]
                         .routes[i].gateway_mac = <<msg.pkt.src_mac>>],
            cookie, priority, <<msg.in_port>>,
            vlan_id, value.src_ip, value.src_netmask, value.dst_ip,
            value.dst_netmask, 0, 0, <<PortMac(msg.in_port)>>,
            <<msg.pkt.src_mac>>, ANY, 0))
      step(value) ==
        IF GatewayMacLearned(value, msg.pkt)
        THEN UpdateRoutingLoop(
               learned(value,
                       id_to_cookie(vlan_id, REST_ROUTEID, value.route_id),
                       get_priority(PRIORITY_TYPE_ROUTE, vlan_id, value)),
               vlan_id, msg, default_route, t, i + 1)
        ELSE UpdateRoutingLoop(w, vlan_id, msg, default_route, t, i + 1)
      row(tables) ==
        IF t > Len(tables) THEN w
        ELSE IF i > Len(tables[t].routes)
        THEN UpdateRoutingLoop(w, vlan_id, msg, default_route, t + 1, 1)
        ELSE step(tables[t].routes[i])
  IN  row(w.vr[vlan_id].policy_routing_tbl.tables)

\* a handler that learns nothing from the sender
update_routing_tbls_skipped(w, vlan_id, msg) == w

update_routing_tbls(w, vlan_id, msg) ==
  UpdateRoutingLoop(w, vlan_id, msg,
    PolicyRoutingTable_get_data(w.vr[vlan_id].policy_routing_tbl, None,
                                <<INADDR_ANY_BASE>>, <<msg.pkt.src>>),
    1, 1)

\* the condition under which _learning_host_mac installs the implicit flow
LearnsHost(vrt, src_ip) == AddressData_get_data_ip(vrt.address_data, src_ip) # None

learning_host_mac(w, vlan_id, msg) ==
  LET learn(address) ==
        set_routing_flow(w,
          id_to_cookie(vlan_id, REST_ADDRESSID, address[1].address_id),
          get_priority(PRIORITY_IMPLICIT_ROUTING, vlan_id, None),
          <<msg.in_port>>, vlan_id, ZeroInt, 32, msg.pkt.src, 32, 0, 0,
          <<PortMac(msg.in_port)>>, <<msg.pkt.src_mac>>, ANY, IDLE_TIMEOUT)
  IN  IF LearnsHost(w.vr[vlan_id], msg.pkt.src)
      THEN learn(AddressData_get_data_ip(w.vr[vlan_id].address_data, msg.pkt.src))
      ELSE w

ReleasedBy_whole_queue(vrt, src_ip) == vrt.packet_buffer

\* _packetin_arp, ARP reply to a router port: the suspended packets that the
\* reply releases
ReleasedBy(vrt, src_ip) == SuspendPacketList_get_data(vrt, src_ip)

\* a handler that sends the suspended packets to the table and leaves them
\* in the list with their timers
ResubmitSuspended_kept(w, vlan_id, src_ip) ==
  LET resubmit(packet_list) ==
        LET S[i \in 0..Len(packet_list)] ==
              IF i = 0 THEN w
              ELSE send_packet_out(S[i - 1], packet_list[i].in_port, OFPP_TABLE,
                                   packet_list[i].data)
        IN  S[Len(packet_list)]
  IN  resubmit(ReleasedBy(w.vr[vlan_id], src_ip))

\* _packetin_arp, ARP reply to a router port: the suspended packets for the
\* sender are deleted from the list, then sent to the table
ResubmitSuspended(w, vlan_id, src_ip) ==
  LET resubmit(packet_list) ==
        LET D[i \in 0..Len(packet_list)] ==
              IF i = 0 THEN w.vr[vlan_id]
              ELSE SuspendPacketList_delete_pkt(D[i - 1], packet_list[i].tid)
            S[i \in 0..Len(packet_list)] ==
              IF i = 0 THEN [w EXCEPT !.vr[vlan_id] = D[Len(packet_list)]]
              ELSE send_packet_out(S[i - 1], packet_list[i].in_port, OFPP_TABLE,
                                   packet_list[i].data)
        IN  S[Len(packet_list)]
  IN  resubmit(ReleasedBy(w.vr[vlan_id], src_ip))

\* a handler that does not look the sender up among the Addresses
packetin_arp_unfiltered(w, vlan_id, msg) ==
  send_packet_out(update_routing_tbls(w, vlan_id, msg), msg.in_port, OFPP_ALL,
                  msg.pkt)

packetin_arp(w, vlan_id, msg) ==
  LET flood_internal(w1, src_addr, dst_addr) ==
        IF dst_addr # None /\ src_addr[1].address_id = dst_addr[1].address_id
        THEN send_packet_out(w1, msg.in_port, OFPP_ALL, msg.pkt)
        ELSE w1
      act(w1, src_addr, src_ip, dst_ip) ==
        IF src_ip = dst_ip
        THEN send_packet_out(w1, msg.in_port, OFPP_ALL, msg.pkt)
        ELSE IF ~InList(dst_ip, AddressData_get_default_gw(w1.vr[vlan_id].address_data))
        THEN flood_internal(w1, src_addr,
               AddressData_get_data_ip(w1.vr[vlan_id].address_data, dst_ip))
        ELSE IF msg.pkt.opcode = ARP_REQUEST
        THEN send_arp(w1, ARP_REPLY, vlan_id, PortMac(msg.in_port),
                      msg.pkt.src_mac, dst_ip, src_ip, PortMac(msg.in_port),
                      OFPP_CONTROLLER, msg.in_port)
        ELSE IF msg.pkt.opcode = ARP_REPLY
        THEN ResubmitSuspended(w1, vlan_id, src_ip)
        ELSE w1
      handle(src_addr) ==
        IF src_addr = None THEN w
        ELSE act(learning_host_mac(update_routing_tbls(w, vlan_id, msg),
                                   vlan_id, msg),
                 src_addr, msg.pkt.src, msg.pkt.dst)
  IN  handle(AddressData_get_data_ip(w.vr[vlan_id].address_data, msg.pkt.src))

SuspendListFull_beyond(vrt) == Len(vrt.packet_buffer) > MAX_SUSPENDPACKETS

\* _packetin_to_node: the test that drops the packet when the list is full
SuspendListFull(vrt) == Len(vrt.packet_buffer) >= MAX_SUSPENDPACKETS

packetin_to_node(w, vlan_id, msg) ==
  LET request(w1, src_ip, dst_ip) ==
        IF src_ip # None
        THEN send_arp_request(
               [w1 EXCEPT !.vr[vlan_id] =
                  SuspendPacketList_add(@, msg.in_port, msg.pkt, msg.pkt)],
               vlan_id, src_ip[1], dst_ip, <<msg.in_port>>)
        ELSE w1
      via_gateway(w1, route, gw_address) ==
        IF gw_address # None
        THEN request(w1, <<gw_address[1].default_gw>>, route[1].gateway_ip)
        ELSE request(w1, None, msg.pkt.dst)
      via_route(w1, route) ==
        IF route # None
        THEN via_gateway(w1, route,
               AddressData_get_data_ip(w1.vr[vlan_id].address_data,
                                       route[1].gateway_ip))
        ELSE request(w1, None, msg.pkt.dst)
      to_address(w1, address) ==
        IF address # None
        THEN request(w1, <<address[1].default_gw>>, msg.pkt.dst)
        ELSE via_route(w1,
               PolicyRoutingTable_get_data(w1.vr[vlan_id].policy_routing_tbl,
                 None, <<msg.pkt.dst>>, <<ip_addr_ntoa(msg.pkt.src)>>))
      flooded(w1) ==
        to_address(w1, AddressData_get_data_ip(w1.vr[vlan_id].address_data,
                                               msg.pkt.dst))
  IN  IF SuspendListFull(w.vr[vlan_id]) THEN w
      ELSE flooded(IF msg.pkt.l4 \in {"dhcp_offer", "dhcp_ack"}
                   THEN send_packet_out(w, msg.in_port, OFPP_ALL, msg.pkt)
                   ELSE w)

packetin_invalid_ttl(w, vlan_id, msg) ==
  LET reply(src_ip) ==
        IF src_ip # None
        THEN send_icmp(w, msg.in_port, msg.pkt, vlan_id, ICMP_TIME_EXCEEDED,
                       "ttl_expired", src_ip)
        ELSE w
  IN  reply(get_send_port_ip(w.vr[vlan_id], msg.pkt))

VlanRouter_packet_in_handler(w, vlan_id, msg) ==
  LET vrt == w.vr[vlan_id]
      hl == msg.pkt
      rt_ports == AddressData_get_default_gw(vrt.address_data)
  IN  IF w.dp.ver \in {OFP12, OFP13} /\ msg.reason = "invalid_ttl"
      THEN packetin_invalid_ttl(w, vlan_id, msg)
      ELSE IF hl.proto = "arp" THEN packetin_arp(w, vlan_id, msg)
      ELSE IF InList(hl.dst, rt_ports)
      THEN CASE hl.l4 = ICMP_ECHO_REQUEST ->
                  send_icmp(w, msg.in_port, hl, vlan_id, ICMP_ECHO_REPLY,
                            "echo_reply", None)
             [] hl.l4 \in {"tcp", "udp"} ->
                  send_icmp(w, msg.in_port, hl, vlan_id, ICMP_DEST_UNREACH,
                            "port_unreach", None)
             [] OTHER -> w
      ELSE packetin_to_node(w, vlan_id, msg)

\* Router.packet_in_handler: dispatch on the VLAN tag of the packet
Router_packet_in_handler(w, vlan_id, msg) ==
  IF vlan_id \in DOMAIN w.vr THEN VlanRouter_packet_in_handler(w, vlan_id, msg)
  ELSE w

\* a wait thread that wakes up and does nothing
wait_arp_reply_timer_idle(w, vlan_id, tid) == w

\* SuspendPacketList.wait_arp_reply_timer after its sleep, with
\* VlanRouter.send_icmp_unreach_error as timeout_function
wait_arp_reply_timer(w, vlan_id, tid) ==
  LET unreach(pkt, src_ip) ==
        IF src_ip # None
        THEN send_icmp(w, pkt.in_port, pkt.header_list, vlan_id,
                       ICMP_DEST_UNREACH, "host_unreach", src_ip)
        ELSE w
      expired(pkt) ==
        IF pkt = None THEN [w EXCEPT !.vr[vlan_id].threads = @ \ {tid}]
        ELSE [unreach(pkt[1], get_send_port_ip(w.vr[vlan_id], pkt[1].header_list))
                EXCEPT !.vr[vlan_id] = SuspendPacketList_delete_pkt(@, tid)]
  IN  expired(First(w.vr[vlan_id].packet_buffer, LAMBDA p : p.tid = tid))

\* VlanRouter.send_arp_all_gw: address is None for a gateway that lies in
\* no registered Address, and address.default_gw raises AttributeError
RECURSIVE SendArpAllGwLoop(_, _, _, _)
SendArpAllGwLoop(w, vlan_id, gateways, i) ==
  LET request(address) ==
        IF address = None THEN [w |-> w, exc |-> "AttributeError"]
        ELSE SendArpAllGwLoop(
               send_arp_request(w, vlan_id, address[1].default_gw,
                                gateways[i][1], None),
               vlan_id, gateways, i + 1)
  IN  IF i > Len(gateways) THEN [w |-> w, exc |-> "none"]
      ELSE request(AddressData_get_data_ip(w.vr[vlan_id].address_data,
                                           gateways[i][1]))

send_arp_all_gw(w, vlan_id) ==
  SendArpAllGwLoop(w, vlan_id,
    PolicyRoutingTable_get_all_gateway_info(w.vr[vlan_id].policy_routing_tbl), 1)

(***************************************************************************)
(* The inputs.  Requests, packets and the outcomes of a flow-stats request *)
(* are drawn from the small sets below.  A run starts either from the      *)
(* router as constructed (scenario "fresh") or from a router that has been *)
(* configured by the requests of Setup (scenario "configured"); the two    *)
(* scenarios draw their events from different sets.                        *)
(***************************************************************************)
\* bounds of the model: the number of events (requests, packet-ins, timer
\* expiries, sweeps) of a run, and the largest address_id and route_id a
\* VlanRouter hands out
MaxSteps == 4
MaxShortSteps == 3
MaxAddressId == 2
MaxRouteId == 2

Cidr(ip, mask) == [ip |-> ip, mask |-> mask, nparts |-> 2]
GW1 == <<10, 0, 0, 1>>
GW2 == <<10, 0, 0, 129>>
GW3 == <<10, 0, 1, 1>>
HOST1 == <<10, 0, 0, 5>>
HOST2 == <<10, 0, 0, 130>>
NEXTHOP1 == <<10, 0, 0, 2>>
NEXTHOP2 == <<10, 0, 0, 3>>
NEXTHOP3 == <<10, 0, 1, 2>>
OUTSIDE == <<10, 9, 9, 9>>
NET16 == Cidr(<<10, 1, 0, 0>>, 16)
\* a destination of prefix length 0 that is not written '0.0.0.0/0'
ANYNET == Cidr(<<10, 0, 0, 0>>, 0)
\* a destination with a prefix length beyond 32
BADNET == Cidr(<<10, 1, 0, 0>>, 33)

\* a request body: the keys present and their values
Param(keys, address, destination, gateway, address_id, route_id, bare) ==
  [syntax_ok |-> TRUE, keys |-> keys, address |-> address,
   destination |-> destination, gateway |-> gateway,
   address_id |-> address_id, route_id |-> route_id, bare |-> bare]
AddressParam(address) ==
  Param({"address"}, address, INADDR_ANY, None, None, None, FALSE)
BareAddressParam(address, bare) ==
  Param({"address", "bare"}, address, INADDR_ANY, None, None, None, bare)
DefaultRouteParam(gateway) ==
  Param({"gateway"}, INADDR_ANY, INADDR_ANY, gateway, None, None, FALSE)
RouteParam(destination, gateway) ==
  Param({"destination", "gateway"}, INADDR_ANY, destination, gateway, None,
        None, FALSE)
QualifiedRouteParam(destination, gateway, address_id) ==
  Param({"destination", "gateway", "address_id"}, INADDR_ANY, destination,
        gateway, address_id, None, FALSE)
QualifiedDefaultParam(gateway, address_id) ==
  Param({"gateway", "address_id"}, INADDR_ANY, INADDR_ANY, gateway,
        address_id, None, FALSE)
DelAddressParam(address_id) ==
  Param({"address_id"}, INADDR_ANY, INADDR_ANY, None, address_id, None, FALSE)
DelRouteParam(route_id) ==
  Param({"route_id"}, INADDR_ANY, INADDR_ANY, None, None, route_id, FALSE)
EmptyParam == Param({}, INADDR_ANY, INADDR_ANY, None, None, None, FALSE)
\* a body that eval() rejects
MalformedParam == [EmptyParam EXCEPT !.syntax_ok = FALSE]

KnownSwitch == "sw1"
UnknownSwitch == "sw9"
Request(switch_id, vlan_id, param, oracle) ==
  [switch_id |-> switch_id, vlan_id |-> vlan_id, param |-> param,
   oracle |-> oracle]
Requests(vlan_ids, params, oracles) ==
  [switch_id : {KnownSwitch}, vlan_id : vlan_ids, param : params,
   oracle : oracles]

PostInputs(scenario) ==
  IF scenario = "fresh"
  THEN Requests({<<0>>},
         { AddressParam(Cidr(GW1, 24)), AddressParam(Cidr(GW2, 25)),
           AddressParam(Cidr(GW3, 24)), AddressParam(Cidr(GW1, 33)),
           DefaultRouteParam(NEXTHOP1), DefaultRouteParam(GW1),
           RouteParam(NET16, NEXTHOP3), RouteParam(NET16, OUTSIDE),
           MalformedParam }, {<<>>})
       \cup Requests({<<10>>},
              { AddressParam(Cidr(GW1, 24)),
                BareAddressParam(Cidr(GW1, 24), FALSE) }, {<<>>})
       \cup Requests({<<1>>}, {BareAddressParam(Cidr(GW1, 24), FALSE)}, {<<>>})
  ELSE IF scenario = "routes"
  THEN Requests({<<0>>, <<10>>},
         { DefaultRouteParam(NEXTHOP1), RouteParam(NET16, NEXTHOP1),
           QualifiedDefaultParam(NEXTHOP1, Id(1)),
           QualifiedRouteParam(NET16, NEXTHOP1, Id(1)),
           RouteParam(ANYNET, NEXTHOP1),
           QualifiedRouteParam(BADNET, NEXTHOP1, Id(1)) }, {<<>>})
  ELSE IF scenario = "vlans"
  THEN Requests({<<20>>},
         { BareAddressParam(Cidr(GW1, 24), TRUE), AddressParam(Cidr(GW3, 24)),
           DefaultRouteParam(NEXTHOP1) }, {<<>>})
       \cup Requests({REST_ALL}, {AddressParam(Cidr(GW3, 24))}, {<<>>})
  ELSE IF scenario = "teardown"
  THEN Requests({<<10>>}, {AddressParam(Cidr(GW3, 24))}, {<<>>})
  ELSE IF scenario = "race"
  THEN Requests({<<0>>},
         {DefaultRouteParam(NEXTHOP1), AddressParam(Cidr(GW3, 24))}, {<<>>})
  ELSE IF scenario = "sources"
  THEN Requests({<<0>>},
         { QualifiedDefaultParam(NEXTHOP1, Id(2)),
           QualifiedRouteParam(NET16, NEXTHOP1, Id(2)),
           QualifiedRouteParam(NET16, NEXTHOP3, Id(1)) }, {<<>>})
  ELSE Requests({<<0>>}, {AddressParam(Cidr(GW3, 24))}, {<<>>})

DeleteInputs(scenario) ==
  IF scenario = "fresh"
  THEN Requests({<<0>>},
         { DelAddressParam(Id(1)), DelAddressParam(<<"x">>),
           DelRouteParam(Id(1)) }, {<<>>})
       \cup Requests({<<0>>}, {DelAddressParam(REST_ALL)},
                     {<<>>, <<"timeout">>, <<"partial">>})
       \cup Requests({<<10>>}, {DelAddressParam(Id(1))}, {<<>>})
       \cup {Request(UnknownSwitch, <<0>>, DelAddressParam(Id(1)), <<>>)}
  ELSE IF scenario = "routes"
  THEN Requests({<<0>>, <<10>>},
         { DelRouteParam(IdZero), DelRouteParam(Id(1)), DelRouteParam(Id(2)),
           DelRouteParam(REST_ALL) }, {<<>>})
  ELSE IF scenario = "vlans"
  THEN Requests({<<0>>},
         { DelAddressParam(IdZero), DelAddressParam(Id(1)),
           DelAddressParam(Id(2)), DelAddressParam(Id(65536)) }, {<<>>})
       \cup Requests({<<10>>}, {DelAddressParam(Id(1))},
                     {<<>>, <<"timeout">>, <<"reply", "timeout">>})
       \cup Requests({<<20>>}, {DelAddressParam(Id(1))}, {<<>>})
  ELSE IF scenario = "teardown"
  THEN Requests({<<10>>},
         { DelRouteParam(Id(1)), DelAddressParam(Id(1)),
           DelAddressParam(REST_ALL) }, {<<>>})
  ELSE IF scenario = "race"
  THEN Requests({<<0>>}, {DelAddressParam(Id(1)), DelAddressParam(REST_ALL)},
                {<<>>, <<"timeout">>})
  ELSE IF scenario = "timers"
  THEN Requests({<<0>>}, {DelAddressParam(Id(1))}, {<<>>})
  ELSE IF scenario = "sources"
  THEN Requests({<<0>>},
         { DelAddressParam(Id(1)), DelAddressParam(Id(2)),
           DelAddressParam(REST_ALL), DelRouteParam(Id(1)),
           DelRouteParam(REST_ALL) }, {<<>>})
  ELSE Requests({<<0>>}, {DelAddressParam(Id(2)), DelAddressParam(REST_ALL)},
                {<<>>})

GetInputs(scenario) ==
  IF scenario = "fresh"
  THEN Requests({<<0>>, REST_ALL}, {EmptyParam}, {<<>>})
  ELSE Requests({<<0>>}, {EmptyParam}, {<<>>})

ArpPkt(opcode, src_mac, src, dst) ==
  [proto |-> "arp", eth_src |-> src_mac, eth_dst |-> BROADCAST_STR,
   opcode |-> opcode, src_mac |-> src_mac, src |-> src, dst |-> dst, l4 |-> ""]
Ipv4Pkt(eth_src, src, dst, l4) ==
  [proto |-> "ipv4", eth_src |-> eth_src, eth_dst |-> PortMac("p1"),
   opcode |-> "", src_mac |-> "", src |-> src, dst |-> dst, l4 |-> l4]
PacketInMsg(vlan_id, in_port, reason, pkt) ==
  [vlan_id |-> vlan_id, in_port |-> in_port, reason |-> reason, pkt |-> pkt]

PacketIns(scenario) ==
  IF scenario = "fresh"
  THEN { PacketInMsg(0, "p1", "action", ArpPkt(ARP_REPLY, "m2", NEXTHOP1, GW1)),
         PacketInMsg(0, "p1", "action", Ipv4Pkt("m6", HOST2, HOST1, "tcp")) }
  ELSE IF scenario \in {"routes", "vlans"}
  THEN { PacketInMsg(0, "p1", "action", Ipv4Pkt("m6", HOST2, HOST1, "tcp")) }
  ELSE IF scenario = "gateways"
  THEN { PacketInMsg(0, "p1", "action", p) :
           p \in { ArpPkt(ARP_REPLY, "m2", NEXTHOP1, GW1),
                   ArpPkt(ARP_REQUEST, "m2", NEXTHOP1, HOST1),
                   ArpPkt(ARP_REPLY, "m4", NEXTHOP2, GW1),
                   ArpPkt(ARP_REQUEST, "m5", HOST1, GW1),
                   ArpPkt(ARP_REPLY, "m3", OUTSIDE, GW1),
                   Ipv4Pkt("m5", HOST1, OUTSIDE, "tcp"),
                   Ipv4Pkt("m2", OUTSIDE, HOST1, "tcp"),
                   Ipv4Pkt("m9", OUTSIDE, HOST1, "tcp") } }
       \cup { PacketInMsg(0, "p2", "action", ArpPkt(ARP_REPLY, "m7", NEXTHOP1, GW1)),
              PacketInMsg(10, "p1", "action", ArpPkt(ARP_REPLY, "m2", NEXTHOP1, GW1)) }
  ELSE IF scenario = "teardown"
  THEN { PacketInMsg(10, "p1", "action", p) :
           p \in { Ipv4Pkt("m5", HOST1, OUTSIDE, "tcp"),
                   Ipv4Pkt("m6", HOST2, HOST1, "tcp"),
                   ArpPkt(ARP_REPLY, "m2", NEXTHOP1, GW1) } }
  ELSE IF scenario \in {"race", "timers"}
  THEN { PacketInMsg(0, "p1", "action", p) :
           p \in { Ipv4Pkt("m6", HOST2, HOST1, "tcp"),
                   ArpPkt(ARP_REPLY, "m5", HOST1, GW1) } }
  ELSE { PacketInMsg(0, "p1", "action", p) :
           p \in { Ipv4Pkt("m6", HOST2, HOST1, "tcp"),
                   Ipv4Pkt("m5", HOST1, HOST2, "udp"),
                   Ipv4Pkt("m5", HOST1, GW3, "tcp"),
                   Ipv4Pkt("m5", HOST1, GW1, ICMP_ECHO_REQUEST),
                   ArpPkt(ARP_REPLY, "m5", HOST1, GW1),
                   ArpPkt(ARP_REPLY, "m2", NEXTHOP1, GW1),
                   ArpPkt(ARP_REPLY, "m3", GW3, GW3),
                   ArpPkt(ARP_REQUEST, "m6", HOST2, GW1) } }
       \cup { PacketInMsg(0, "p1", "invalid_ttl", Ipv4Pkt("m5", HOST1, GW3, "udp")) }

\* the requests that configure the router of scenario "configured"
Setup == << Request(KnownSwitch, <<0>>, AddressParam(Cidr(GW1, 24)), <<>>),
            Request(KnownSwitch, <<0>>, DefaultRouteParam(NEXTHOP1), <<>>) >>

\* the requests that configure the router of scenario "routes": the same
\* Address on the untagged VLAN and on VLAN 10
SetupRoutes ==
  << Request(KnownSwitch, <<0>>, AddressParam(Cidr(GW1, 24)), <<>>),
     Request(KnownSwitch, <<10>>, BareAddressParam(Cidr(GW1, 24), FALSE), <<>>) >>

\* the requests that configure the router of scenario "vlans": an Address and
\* a default route on the untagged VLAN, the same Address on VLAN 10
SetupVlans ==
  << Request(KnownSwitch, <<0>>, AddressParam(Cidr(GW1, 24)), <<>>),
     Request(KnownSwitch, <<0>>, DefaultRouteParam(NEXTHOP1), <<>>),
     Request(KnownSwitch, <<10>>, BareAddressParam(Cidr(GW1, 24), FALSE), <<>>) >>

\* the requests that configure the router of scenario "gateways": on the
\* untagged VLAN an Address, a default route through one gateway and a route
\* of the Address's own table through another; on VLAN 10 the same Address
\* and two routes through the first gateway
SetupGateways ==
  << Request(KnownSwitch, <<0>>, AddressParam(Cidr(GW1, 24)), <<>>),
     Request(KnownSwitch, <<0>>, DefaultRouteParam(NEXTHOP1), <<>>),
     Request(KnownSwitch, <<0>>, QualifiedRouteParam(NET16, NEXTHOP2, Id(1)), <<>>),
     Request(KnownSwitch, <<10>>, BareAddressParam(Cidr(GW1, 24), FALSE), <<>>),
     Request(KnownSwitch, <<10>>, DefaultRouteParam(NEXTHOP1), <<>>),
     Request(KnownSwitch, <<10>>, RouteParam(NET16, NEXTHOP1), <<>>) >>

\* the requests that configure the router of scenario "teardown": VLAN 10
\* with an Address and a default route
SetupTeardown ==
  << Request(KnownSwitch, <<10>>, BareAddressParam(Cidr(GW1, 24), FALSE), <<>>),
     Request(KnownSwitch, <<10>>, DefaultRouteParam(NEXTHOP1), <<>>) >>

\* the requests that configure the router of scenario "sources": two
\* Addresses on the untagged VLAN
SetupSources ==
  << Request(KnownSwitch, <<0>>, AddressParam(Cidr(GW1, 24)), <<>>),
     Request(KnownSwitch, <<0>>, AddressParam(Cidr(GW3, 24)), <<>>) >>

Datapaths == {[ver |-> OFP10, n_tables |-> 1], [ver |-> OFP13, n_tables |-> 2]}

(***************************************************************************)
(* The state machine.                                                      *)
(***************************************************************************)
VARIABLES
  vr,        \* Router: vlan id -> VlanRouter
  flows,     \* the flow table of the switch
  dp,        \* the datapath: OpenFlow version and number of tables
  sent,      \* the messages the last handler sent to the switch
  last,      \* the last event handled and, for a request, its response
  steps,     \* the number of events handled so far
  scenario,  \* "fresh" or "configured": the sets the events are drawn from
  waiters,   \* PlexusController.waiters: dp id -> XID -> (event, msgs)
  calls,     \* the calls of send_stats_request made so far
  xids,      \* dp id -> the XID set_xid hands out next
  registered, \* the datapath's Router is in PlexusController._ROUTER_LIST
  blocked    \* the frames of the DELETE handlers that wait in send_stats_request

stats_vars == <<waiters, calls, xids>>

vars == <<vr, flows, dp, sent, last, steps, scenario, waiters, calls, xids,
          registered, blocked>>

\* the state as the handlers see it, with the outcomes of the flow-stats
\* requests the handler will make; frame is None for a handler that runs from
\* its start, and holds what _delete_address_data had before its wait in
\* send_stats_request (skip_ids and the reply) for a handler that resumes
World(oracle) ==
  [vr |-> vr, flows |-> flows, sent |-> <<>>, dp |-> dp, oracle |-> oracle,
   registered |-> registered, frame |-> None]

Last(op, input, exc, body) ==
  [op |-> op, input |-> input, exc |-> exc, status |-> rest_command(exc),
   body |-> body]

\* Router.__init__ on a datapath d
Router_init(d) ==
  LET w0 == [vr |-> <<>>, flows |-> <<>>, sent |-> <<>>, dp |-> d,
             oracle |-> <<>>, registered |-> TRUE, frame |-> None]
      w1 == Emit(w0, [type |-> "clear_flows"])
      w2 == set_packetin_flow(w1, <<0, 0, COOKIE_DEFAULT_ID>>,
              get_priority(PRIORITY_ARP_HANDLING, 0, None), ETH_TYPE_ARP, 0,
              ZeroInt, 32, ZeroInt, 32)
  IN  VlanRouter_init(w2, VLANID_NONE, FALSE)

\* PlexusController._access_router under rest_command
access_router(w, req, func) ==
  IF req.switch_id # KnownSwitch \/ ~w.registered
  THEN [w |-> w, exc |-> "NotFoundError", msgs |-> <<>>]
  ELSE IF ~req.param.syntax_ok
  THEN [w |-> w, exc |-> "SyntaxError", msgs |-> <<>>]
  ELSE CASE func = "set_data" -> Router_set_data(w, req.vlan_id, req.param)
         [] func = "delete_data" -> Router_delete_data(w, req.vlan_id, req.param)
         [] OTHER -> Router_get_data(w, req.vlan_id)

\* the router after the POST requests reqs[i..]
RECURSIVE Configure(_, _, _)
Configure(w, reqs, i) ==
  IF i > Len(reqs) THEN w
  ELSE Configure(access_router(w, reqs[i], "set_data").w, reqs, i + 1)

Start(w, d, sc) ==
  /\ vr = w.vr
  /\ flows = w.flows
  /\ dp = d
  /\ sent = w.sent
  /\ last = Last("INIT", None, "none", <<>>)
  /\ steps = 0
  /\ scenario = sc
  /\ waiters = <<>>
  /\ calls = <<>>
  /\ xids = [i \in StatsDps |-> FirstXid]
  /\ registered = TRUE
  /\ blocked = <<>>

Init == \E d \in Datapaths : Start(Router_init(d), d, "fresh")

InitConfigured ==
  \E d \in Datapaths : Start(Configure(Router_init(d), Setup, 1), d, "configured")

\* the ids handed out stay within the bounds of the model
WithinBounds(w) ==
  \A v \in DOMAIN w.vr :
    /\ IdLeq(w.vr[v].address_data.address_id, Id(MaxAddressId + 1))
    /\ IdLeq(w.vr[v].policy_routing_tbl.route_id, Id(MaxRouteId + 1))

\* the scenarios with many accepted requests run one step less
StepBound(sc) ==
  IF sc \in {"fresh", "configured", "race"} THEN MaxSteps ELSE MaxShortSteps

\* the effect of a handler that ends with the world w
Effect(w, l) ==
  /\ steps < StepBound(scenario)
  /\ WithinBounds(w)
  /\ vr' = w.vr
  /\ flows' = w.flows
  /\ sent' = w.sent
  /\ last' = l
  /\ steps' = steps + 1
  /\ UNCHANGED <<dp, scenario>>

Commit(w, l) ==
  /\ Effect(w, l)
  /\ UNCHANGED <<stats_vars, registered, blocked>>

\* POST /router/{switch_id}[/{vlan_id}]
Post ==
  \E req \in PostInputs(scenario) :
    LET r == access_router(World(<<>>), req, "set_data")
    IN  Commit(r.w, Last("POST", req, r.exc, r.msgs))

\* DELETE /router/{switch_id}[/{vlan_id}]
Delete ==
  \E req \in DeleteInputs(scenario) :
    LET r == access_router(World(req.oracle), req, "delete_data")
    IN  Commit(r.w, Last("DELETE", req, r.exc, r.msgs))

\* GET /router/{switch_id}[/{vlan_id}]
Get ==
  \E req \in GetInputs(scenario) :
    LET r == access_router(World(<<>>), req, "get_data")
    IN  Commit(r.w, Last("GET", req, r.exc, r.msgs))

\* PlexusController.packet_in_handler: a packet-in of a datapath without a
\* Router is ignored
packet_in_handler(w, msg) ==
  IF w.registered THEN Router_packet_in_handler(w, msg.vlan_id, msg) ELSE w

\* a packet-in message of the switch
PacketIn ==
  \E m \in PacketIns(scenario) :
    Commit(packet_in_handler(World(<<>>), m), Last("PACKET_IN", m, "none", <<>>))

\* the ARP reply wait timer of a suspended packet expires
TimerExpire ==
  \E v \in DOMAIN vr : \E tid \in vr[v].threads :
    Commit(wait_arp_reply_timer(World(<<>>), v, tid),
           Last("TIMER", [vlan_id |-> v, tid |-> tid], "none", <<>>))

\* one round of Router._cyclic_update_routing_tbls for one VlanRouter; the
\* thread runs until Router.delete kills it
Sweep ==
  /\ registered
  /\ \E v \in DOMAIN vr :
       LET r == send_arp_all_gw(World(<<>>), v)
       IN  Commit(r.w, Last("SWEEP", [vlan_id |-> v], r.exc, <<>>))

Next == Post \/ Delete \/ Get \/ PacketIn \/ TimerExpire \/ Sweep

Spec == Init /\ [][Next]_vars

SpecConfigured == InitConfigured /\ [][Next]_vars

InitRoutes ==
  \E d \in Datapaths : Start(Configure(Router_init(d), SetupRoutes, 1), d, "routes")

SpecRoutes == InitRoutes /\ [][Next]_vars

InitVlans ==
  \E d \in Datapaths : Start(Configure(Router_init(d), SetupVlans, 1), d, "vlans")

SpecVlans == InitVlans /\ [][Next]_vars

InitGateways ==
  \E d \in Datapaths :
    Start(Configure(Router_init(d), SetupGateways, 1), d, "gateways")

SpecGateways == InitGateways /\ [][Next]_vars

\* The datapath leaves: PlexusController.unregister_router.  Router.delete
\* kills the thread of _cyclic_update_routing_tbls, and the Router is taken
\* out of _ROUTER_LIST.  The Router object, its VlanRouters and the wait
\* threads of their suspended packets are not touched.
Disconnect ==
  /\ steps < StepBound(scenario)
  /\ registered
  /\ registered' = FALSE
  /\ sent' = <<>>
  /\ last' = Last("DISCONNECT", None, "none", <<>>)
  /\ steps' = steps + 1
  /\ UNCHANGED <<vr, flows, dp, scenario, stats_vars, blocked>>

InitDisconnect ==
  \E d \in Datapaths :
    Start(Configure(Router_init(d), Setup, 1), d, "disconnect")

InitTeardown ==
  \E d \in Datapaths :
    Start(Configure(Router_init(d), SetupTeardown, 1), d, "teardown")

SpecTeardown == InitTeardown /\ [][Next]_vars

NextDisconnect == Next \/ Disconnect

\* A DELETE {address_id} up to its wait in send_stats_request: the handler
\* has looked up the Router and the VlanRouter, has computed skip_ids with
\* _chk_addr_relation_route, and has sent the flow-stats request, which the
\* switch answers with the flows it holds now.  hub.Event.wait yields to the
\* other threads: the handler goes on in DeleteResume.
DeleteBegin ==
  /\ steps < StepBound(scenario)
  /\ registered
  /\ blocked = <<>>
  /\ \E req \in DeleteInputs(scenario) :
       /\ req.switch_id = KnownSwitch
       /\ req.param.syntax_ok
       /\ "address_id" \in req.param.keys /\ "route_id" \notin req.param.keys
       /\ req.param.address_id = REST_ALL \/ Len(req.param.address_id) = 2
       /\ get_vlan_router(World(<<>>), req.vlan_id).vids = <<req.vlan_id[1]>>
       /\ blocked' =
            <<[req |-> req,
               skip_ids |-> chk_addr_relation_route(vr[req.vlan_id[1]],
                                                    req.param.address_id),
               stats |-> get_all_flow(World(req.oracle)).msgs]>>
       /\ last' = Last("DELETE_WAIT", req, "none", <<>>)
  /\ sent' = <<>>
  /\ steps' = steps + 1
  /\ UNCHANGED <<vr, flows, dp, scenario, stats_vars, registered>>

\* the reply has arrived, or OFP_REPLY_TIMER has run out: the DELETE goes on
\* after get_all_flow with the skip_ids it computed before the wait
DeleteResume ==
  /\ blocked # <<>>
  /\ blocked' = <<>>
  /\ LET r == access_router([World(<<>>) EXCEPT !.frame = <<blocked[1]>>],
                            blocked[1].req, "delete_data")
     IN  Effect(r.w, Last("DELETE", blocked[1].req, r.exc, r.msgs))
  /\ UNCHANGED <<stats_vars, registered>>

InitRace ==
  \E d \in Datapaths :
    Start(Configure(Router_init(d), SubSeq(Setup, 1, 1), 1), d, "race")

NextRace == Post \/ DeleteBegin \/ DeleteResume \/ PacketIn \/ TimerExpire

SpecRace == InitRace /\ [][NextRace]_vars

\* the wait thread tid of VLAN v wakes up from hub.sleep(ARP_REPLY_TIMER):
\* the thread was spawned by SuspendPacket.__init__ and runs once, whatever
\* the number of requests and packet-ins handled before
TimerFire(v, tid) ==
  /\ v \in DOMAIN vr
  /\ tid \in vr[v].threads
  /\ UNCHANGED <<steps, dp, scenario, stats_vars, registered, blocked>>
  /\ last' = Last("TIMER", [vlan_id |-> v, tid |-> tid], "none", <<>>)
  /\ LET fired(w) == vr' = w.vr /\ flows' = w.flows /\ sent' = w.sent
     IN  fired(wait_arp_reply_timer(World(<<>>), v, tid))

\* one of the wait threads that are alive wakes up
TimerFires == \E v \in DOMAIN vr : \E tid \in vr[v].threads : TimerFire(v, tid)

NextTimers == DeleteBegin \/ DeleteResume \/ PacketIn \/ TimerFires

\* every wait thread that is alive gets to run: the hub wakes a sleeping
\* thread up once its time has come, unless the thread is killed before
InitTimers ==
  \E d \in Datapaths :
    Start(Configure(Router_init(d), SubSeq(Setup, 1, 1), 1), d, "timers")

SpecTimers ==
  /\ InitTimers
  /\ [][NextTimers]_vars
  /\ \A tid \in 1..MAX_SUSPENDPACKETS : WF_vars(TimerFire(VLANID_NONE, tid))

SpecDisconnect == InitDisconnect /\ [][NextDisconnect]_vars

InitSources ==
  \E d \in Datapaths :
    Start(Configure(Router_init(d), SetupSources, 1), d, "sources")

NextSources == Post \/ Delete

SpecSources == InitSources /\ [][NextSources]_vars

(***************************************************************************)
(* Longest-prefix match: a router with the Address 10.0.0.1/24, to which   *)
(* routes to nested and disjoint destinations are added in any order, and  *)
(* whose any-source table is then asked for the route to a destination.    *)
(***************************************************************************)
\* bound: the number of routes of the table
MaxLpmRoutes == 3

LpmDestinations ==
  { Cidr(<<10, 0, 0, 0>>, 8), Cidr(<<10, 1, 0, 0>>, 16),
    Cidr(<<10, 1, 1, 0>>, 24), Cidr(<<10, 1, 1, 7>>, 24),
    Cidr(<<10, 1, 1, 1>>, 32), Cidr(<<10, 2, 0, 0>>, 16) }

LpmRequests ==
  Requests({<<0>>}, {RouteParam(d, NEXTHOP1) : d \in LpmDestinations}
                    \cup {DefaultRouteParam(NEXTHOP1)}, {<<>>})

LpmProbes ==
  { <<10, 1, 1, 1>>, <<10, 1, 1, 2>>, <<10, 1, 2, 3>>, <<10, 2, 0, 1>>,
    <<10, 3, 0, 1>>, <<11, 0, 0, 1>> }

InitLpm ==
  \E d \in Datapaths :
    Start(Configure(Router_init(d), <<Setup[1]>>, 1), d, "lpm")

\* POST of a route
LpmAddRoute ==
  \E req \in LpmRequests :
    LET r == access_router(World(<<>>), req, "set_data")
    IN  /\ Len(AnyTable(r.w.vr[0].policy_routing_tbl).routes) <= MaxLpmRoutes
        /\ vr' = r.w.vr
        /\ flows' = r.w.flows
        /\ sent' = r.w.sent
        /\ last' = Last("POST", req, r.exc, r.msgs)
        /\ UNCHANGED <<dp, steps, scenario>>
        /\ UNCHANGED <<stats_vars, registered, blocked>>

\* policy_routing_tbl.get_data(dst_ip=dst)
LpmLookup ==
  \E dst \in LpmProbes :
    /\ last' = Last("LOOKUP", [dst_ip |-> dst], "none",
                    PolicyRoutingTable_get_data(vr[0].policy_routing_tbl, None,
                                                <<dst>>, None))
    /\ UNCHANGED <<vr, flows, dp, sent, steps, scenario>>
    /\ UNCHANGED <<stats_vars, registered, blocked>>

NextLpm == LpmAddRoute \/ LpmLookup

SpecLpm == InitLpm /\ [][NextLpm]_vars

(***************************************************************************)
(* The wrap of the id counters: a router whose untagged VLAN holds Address *)
(* 1 and Route 1 and whose counters address_id and route_id have reached   *)
(* UINT32_MAX, the state after 2^32 - 2 further adds, each followed by the *)
(* delete of what it added.  Addresses and routes are then POSTed.         *)
(***************************************************************************)
IdMax == <<UINT16_MAX, UINT16_MAX>>

SetupWrap ==
  << Request(KnownSwitch, <<0>>, AddressParam(Cidr(GW1, 24)), <<>>),
     Request(KnownSwitch, <<0>>, RouteParam(NET16, NEXTHOP1), <<>>) >>

WrapRequests ==
  Requests({<<0>>},
    { AddressParam(Cidr(GW3, 24)), AddressParam(Cidr(<<10, 0, 2, 1>>, 24)),
      AddressParam(Cidr(GW2, 25)), DefaultRouteParam(NEXTHOP1),
      RouteParam(Cidr(<<10, 2, 0, 0>>, 16), NEXTHOP1),
      RouteParam(NET16, NEXTHOP1) }, {<<>>})

InitWrap ==
  \E d \in Datapaths :
    LET wrapped(w) ==
          [w EXCEPT !.vr[0].address_data.address_id = IdMax,
                    !.vr[0].policy_routing_tbl.route_id = IdMax]
    IN  Start(wrapped(Configure(Router_init(d), SetupWrap, 1)), d, "wrap")

\* POST of an address or a route
WrapPost ==
  /\ steps < MaxShortSteps
  /\ \E req \in WrapRequests :
       LET r == access_router(World(<<>>), req, "set_data")
       IN  /\ vr' = r.w.vr
           /\ flows' = r.w.flows
           /\ sent' = r.w.sent
           /\ last' = Last("POST", req, r.exc, r.msgs)
           /\ steps' = steps + 1
           /\ UNCHANGED <<dp, scenario>>
           /\ UNCHANGED <<stats_vars, registered, blocked>>

NextWrap == WrapPost

SpecWrap == InitWrap /\ [][NextWrap]_vars

(***************************************************************************)
(* The flow-stats requests and their replies: the calls of                 *)
(* send_stats_request run in the threads of the REST requests, the         *)
(* fragments of the replies arrive in the thread of the controller, in any *)
(* order, for any datapath and XID, asked for or not.                      *)
(***************************************************************************)
MaxCalls == 2

MaxStatsSteps == 6

StatsXids == {FirstXid, FirstXid + 1}

InitStats == \E d \in Datapaths : Start(Router_init(d), d, "stats")

StatsStep(r, op, input) ==
  /\ waiters' = r.waiters
  /\ calls' = r.calls
  /\ last' = Last(op, input, "none", <<>>)
  /\ steps' = steps + 1
  /\ UNCHANGED <<vr, flows, dp, sent, scenario, registered, blocked>>

\* a thread enters send_stats_request for the datapath d
StatsRequest ==
  /\ steps < MaxStatsSteps
  /\ Len(calls) < MaxCalls
  /\ \E d \in StatsDps :
       /\ StatsStep(send_stats_request(waiters, calls, d, xids[d]),
                    "STATS_REQUEST", <<d, xids[d]>>)
       /\ xids' = [xids EXCEPT ![d] = @ + 1]

\* a fragment of a reply arrives
StatsReply ==
  /\ steps < MaxStatsSteps
  /\ \E d \in StatsDps, x \in StatsXids, more \in BOOLEAN :
       LET msg == [dp_id |-> d, xid |-> x, more |-> more, seq |-> steps + 1]
       IN  /\ StatsStep(stats_reply_handler(waiters, calls, msg),
                        "STATS_REPLY", msg)
           /\ UNCHANGED xids

\* the event of a waiting call was set: the wait returns
StatsWakeup ==
  /\ steps < MaxStatsSteps
  /\ \E c \in 1..Len(calls) :
       /\ calls[c].pc = "wait"
       /\ calls[c].set > 0
       /\ StatsStep(send_stats_request_return(waiters, calls, c, "event", FALSE),
                    "STATS_RETURN", <<c>>)
       /\ UNCHANGED xids

\* OFP_REPLY_TIMER runs out before the event of a waiting call is set
StatsTimeout ==
  /\ steps < MaxStatsSteps
  /\ \E c \in 1..Len(calls), raises \in BOOLEAN :
       /\ calls[c].pc = "wait"
       /\ calls[c].set = 0
       /\ StatsStep(send_stats_request_return(waiters, calls, c, "timeout", raises),
                    "STATS_TIMEOUT", <<c, raises>>)
       /\ UNCHANGED xids

NextStats == StatsRequest \/ StatsReply \/ StatsWakeup \/ StatsTimeout

SpecStats == InitStats /\ [][NextStats]_vars

(***************************************************************************)
(* The priorities: get_priority applied to two routes of one VLAN, and to  *)
(* one priority class on a tagged VLAN and on the untagged one.            *)
(***************************************************************************)
PriorityVlans == {VLANID_NONE, VLANID_MIN, 10, VLANID_MAX}
PriorityMasks == 0..32
\* the routes: default and static, each with and without a source address
PriorityRoutes ==
  LET srcs == {None, <<Address(Id(1), <<10, 0, 0, 0>>, 24, GW1)>>}
  IN  {Route(Id(1), ZeroInt, 0, NEXTHOP1, a) : a \in srcs}
      \cup {Route(Id(1), ipv4_apply_mask(<<10, 1, 1, 1>>, m).ip, m, NEXTHOP1, a) :
              m \in PriorityMasks, a \in srcs}
\* the arguments of a call of get_priority: a class given by its number, or
\* PRIORITY_TYPE_ROUTE with a route
PriorityCalls ==
  [priority_type : {PRIORITY_ARP_HANDLING, PRIORITY_DEFAULT_ROUTING,
                    PRIORITY_ADDRESSED_DEFAULT_ROUTING, PRIORITY_MAC_LEARNING,
                    PRIORITY_STATIC_ROUTING, PRIORITY_ADDRESSED_STATIC_ROUTING,
                    PRIORITY_IMPLICIT_ROUTING, PRIORITY_L2_SWITCHING,
                    PRIORITY_IP_HANDLING},
   route : {None}]
  \cup [priority_type : {PRIORITY_TYPE_ROUTE}, route : PriorityRoutes]

InitPriority == \E d \in Datapaths : Start(Router_init(d), d, "priority")

\* get_priority for two routes of one VLAN; each run makes one call
PriorityOfRoutes ==
  /\ steps = 0
  /\ \E vid \in PriorityVlans, r1 \in PriorityRoutes, r2 \in PriorityRoutes :
    /\ steps' = 1
    /\ last' = Last("PRIORITY_ROUTES", [vid |-> vid, r1 |-> r1, r2 |-> r2],
                    "none",
                    <<get_priority(PRIORITY_TYPE_ROUTE, vid, r1),
                      get_priority(PRIORITY_TYPE_ROUTE, vid, r2)>>)
    /\ UNCHANGED <<vr, flows, dp, sent, scenario>>
    /\ UNCHANGED <<stats_vars, registered, blocked>>

\* get_priority for one class, on a tagged VLAN and with vid = 0
PriorityOfClass ==
  /\ steps = 0
  /\ \E vid \in PriorityVlans \ {VLANID_NONE}, c \in PriorityCalls :
    /\ steps' = 1
    /\ last' = Last("PRIORITY_CLASS", [vid |-> vid, call |-> c], "none",
                    <<get_priority(c.priority_type, vid, c.route),
                      get_priority(c.priority_type, VLANID_NONE, c.route)>>)
    /\ UNCHANGED <<vr, flows, dp, sent, scenario>>
    /\ UNCHANGED <<stats_vars, registered, blocked>>

NextPriority == PriorityOfRoutes \/ PriorityOfClass

SpecPriority == InitPriority /\ [][NextPriority]_vars

(***************************************************************************)
(* The cookie: _id_to_cookie of a VlanRouter followed by the three         *)
(* decodings of _cookie_to_id, for ids over the whole range of the 32-bit  *)
(* counters address_id and route_id.                                       *)
(***************************************************************************)
CookieVlans == {VLANID_NONE, VLANID_MIN, 10, 100, VLANID_MAX}
CookieLimbs == {0, 1, 2, UINT16_MAX - 1, UINT16_MAX}
CookieIds == (CookieLimbs \X CookieLimbs) \ {IdZero}

InitCookie == \E d \in Datapaths : Start(Router_init(d), d, "cookie")

CookieRoundTrip ==
  \E v \in CookieVlans, id_type \in {REST_ADDRESSID, REST_ROUTEID},
     rest_id \in CookieIds :
    LET decoded(cookie) ==
          [cookie |-> cookie,
           vlan_id |-> cookie_to_id(REST_VLANID, cookie),
           address_id |-> cookie_to_id(REST_ADDRESSID, cookie),
           route_id |-> cookie_to_id(REST_ROUTEID, cookie)]
    IN  /\ last' = Last("COOKIE",
                        [vlan_id |-> v, id_type |-> id_type, rest_id |-> rest_id],
                        "none", decoded(id_to_cookie(v, id_type, rest_id)))
        /\ UNCHANGED <<vr, flows, dp, sent, steps, scenario>>
        /\ UNCHANGED <<stats_vars, registered, blocked>>

NextCookie == CookieRoundTrip

SpecCookie == InitCookie /\ [][NextCookie]_vars

(***************************************************************************)
(* delete_flow: a router with two Addresses and a default route on the     *)
(* untagged VLAN; delete_flow is called with entries of the flow table, as *)
(* the flow-stats reply lists them.                                        *)
(***************************************************************************)
InitDeleteFlow ==
  \E d \in Datapaths :
    Start(Configure(Router_init(d),
                    Setup \o <<Request(KnownSwitch, <<0>>,
                                       AddressParam(Cidr(GW3, 24)), <<>>)>>, 1),
          d, "delete_flow")

DeleteFlow ==
  \E k \in 1..Len(flows) :
    Commit(delete_flow(World(<<>>), flows[k]),
           Last("DELETE_FLOW", flows[k], "none", <<>>))

NextDeleteFlow == DeleteFlow

SpecDeleteFlow == InitDeleteFlow /\ [][NextDeleteFlow]_vars

(***************************************************************************)
(* Properties.                                                             *)
(***************************************************************************)
\* the Addresses registered on VLAN v
Addresses(v) == vr[v].address_data.addrs
\* the Routes of VLAN v, over all its routing tables
Routes(v) ==
  Flatten([t \in 1..Len(vr[v].policy_routing_tbl.tables) |->
             vr[v].policy_routing_tbl.tables[t].routes])

\* the network prefix of a contains the address ip
PrefixContains(nw_addr, netmask, ip) ==
  \A k \in 1..4 :
    LET bits == Max2(0, Min2(8, netmask - 8 * (k - 1)))
    IN  ip[k] \div Pow2(8 - bits) = nw_addr[k] \div Pow2(8 - bits)
Overlap(a, b) ==
  \/ PrefixContains(a.nw_addr, a.netmask, b.nw_addr)
  \/ PrefixContains(b.nw_addr, b.netmask, a.nw_addr)

NoTwoAddressesOverlap ==
  \A v \in DOMAIN vr : \A i, j \in 1..Len(Addresses(v)) :
    i # j => ~Overlap(Addresses(v)[i], Addresses(v)[j])

\* the step is a POST of a well-formed CIDR that reaches AddressData.add of
\* an existing VlanRouter v holding an Address that overlaps the CIDR
OverlappingAdd(v) ==
  /\ last'.op = "POST"
  /\ last'.input.switch_id = KnownSwitch
  /\ last'.input.param.syntax_ok
  /\ "address" \in last'.input.param.keys
  /\ last'.input.vlan_id = <<v>>
  /\ v \in DOMAIN vr /\ ~vr[v].bare
  /\ last'.input.param.address.mask \in 0..32
  /\ \E i \in 1..Len(Addresses(v)) :
       \/ PrefixContains(Addresses(v)[i].nw_addr, Addresses(v)[i].netmask,
                         last'.input.param.address.ip)
       \/ PrefixContains(last'.input.param.address.ip,
                         last'.input.param.address.mask, Addresses(v)[i].nw_addr)

AddRejected(v) ==
  /\ last'.exc = "none"
  /\ Len(last'.body) = 1
  /\ last'.body[1].result = REST_NG
  /\ last'.body[1].details = "Address overlaps"
  /\ v \in DOMAIN vr'
  /\ vr'[v].address_data = vr[v].address_data

\* C1: in every reachable state no two Addresses of one VLAN overlap (neither
\* prefix contains the other's network address), and every step in which
\* AddressData.add is given a CIDR whose prefix contains, or is contained in,
\* the prefix of a registered Address ends in CommandFailure ("Address
\* overlaps") and leaves the AddressData of that VLAN as it was.
C1_NoOverlap ==
  /\ []NoTwoAddressesOverlap
  /\ [][\A v \in DOMAIN vr : OverlappingAdd(v) => AddRejected(v)]_vars

\* a POST of 10.0.0.129/25 was refused while 10.0.0.1/24 is registered, or
\* the other way round
C1_Witness ==
  /\ last.op = "POST"
  /\ last.exc = "none"
  /\ "address" \in last.input.param.keys
  /\ Len(last.body) = 1
  /\ last.body[1].result = REST_NG
  /\ last.body[1].details = "Address overlaps"
  /\ \E i \in 1..Len(Addresses(0)) :
       /\ Addresses(0)[i].netmask # last.input.param.address.mask
       /\ Overlap(Addresses(0)[i],
                  [nw_addr |-> ipv4_apply_mask(last.input.param.address.ip,
                                 last.input.param.address.mask).ip,
                   netmask |-> last.input.param.address.mask])

\* the gateway of Route r lies in a registered Address of VLAN v and is not
\* the default_gw of that Address
GatewayCovered(v, r) ==
  \E i \in 1..Len(Addresses(v)) :
    /\ PrefixContains(Addresses(v)[i].nw_addr, Addresses(v)[i].netmask,
                      r.gateway_ip)
    /\ r.gateway_ip # Addresses(v)[i].default_gw

\* C2: in every reachable state every Route of a VLAN has a registered
\* Address of that VLAN whose prefix contains the Route's gateway_ip and
\* whose default_gw differs from it; and a round of send_arp_all_gw never
\* fails to find the Address of a gateway (it raises nothing).
C2_GatewayInAddress ==
  /\ \A v \in DOMAIN vr : \A k \in 1..Len(Routes(v)) :
       GatewayCovered(v, Routes(v)[k])
  /\ last.op = "SWEEP" => last.exc = "none"

\* a round of send_arp_all_gw sent an ARP request for the gateway of a Route
C2_Witness ==
  /\ last.op = "SWEEP"
  /\ Routes(0) # <<>>
  /\ \E k \in 1..Len(sent) :
       sent[k].type = "packet_out" /\ sent[k].data.proto = "arp"
       /\ sent[k].data.dst_ip = Routes(0)[1].gateway_ip

\* the destination prefix of Route r contains the address ip
RouteContains(r, ip) ==
  r.dst_netmask = 0 \/ PrefixContains(r.dst_ip, r.dst_netmask, ip)

\* what longest-prefix match over the Routes rs returns for dst
LongestPrefixMatch(rs, dst, found) ==
  LET containing == {i \in 1..Len(rs) : RouteContains(rs[i], dst)}
      specific == {i \in containing : rs[i].dst_netmask > 0}
  IN  /\ specific # {} =>
           \E i \in specific :
             /\ found = <<rs[i]>>
             /\ \A j \in containing \ {i} : rs[j].dst_netmask < rs[i].dst_netmask
      /\ specific = {} /\ containing # {} =>
           \E i \in containing : found = <<rs[i]>> /\ rs[i].dst_netmask = 0
      /\ containing = {} => found = None

\* C3: policy_routing_tbl.get_data(dst_ip=dst) on the any-source table
\* returns the Route containing dst whose netmask is greater than that of
\* every other containing Route; the default route only when no Route with
\* a mask > 0 contains dst; None when there is no default route either.  No
\* two Routes of one table have the same destination network and mask.
C3_LongestPrefixMatch ==
  /\ last.op = "LOOKUP" =>
       LongestPrefixMatch(AnyTable(vr[0].policy_routing_tbl).routes,
                          last.input.dst_ip, last.body)
  /\ \A v \in DOMAIN vr : \A t \in 1..Len(vr[v].policy_routing_tbl.tables) :
       LET rs == vr[v].policy_routing_tbl.tables[t].routes
       IN  \A i, j \in 1..Len(rs) :
             i # j => ~(/\ rs[i].dst_netmask = rs[j].dst_netmask
                        /\ ip_addr_ntoa(rs[i].dst_ip) = ip_addr_ntoa(rs[j].dst_ip))

\* the lookup of 10.1.1.2 returned the /24 route of a table that also holds
\* the containing /16 route, added after it, and a third route
C3_Witness ==
  /\ last.op = "LOOKUP"
  /\ last.input.dst_ip = <<10, 1, 1, 2>>
  /\ last.body # None
  /\ last.body[1].dst_netmask = 24
  /\ LET rs == AnyTable(vr[0].policy_routing_tbl).routes
     IN  /\ Len(rs) = 3
         /\ \E i, j \in 1..Len(rs) :
              i < j /\ rs[i].dst_netmask = 24 /\ rs[j].dst_netmask = 16

\* C4: the cookie built for (vlan_id, address_id) decodes to the same
\* vlan_id and address_id and to route id 0; the cookie built for (vlan_id,
\* route_id) decodes to the same vlan_id and route_id; for every legal
\* vlan_id and every id in [1, 2^32 - 1].
C4_CookieRoundTrip ==
  last.op = "COOKIE" =>
    /\ last.body.vlan_id = last.input.vlan_id
    /\ last.input.id_type = REST_ADDRESSID =>
         /\ last.body.address_id = last.input.rest_id
         /\ last.body.route_id = IdZero
    /\ last.input.id_type = REST_ROUTEID =>
         last.body.route_id = last.input.rest_id

\* message m to the switch is a packet-out of an ARP request
IsArpRequest(m) ==
  m.type = "packet_out" /\ m.data.proto = "arp" /\ m.data.opcode = ARP_REQUEST

\* the step handles an IPv4 packet-in on VLAN v whose suspend queue is full
Ipv4WhileFull(v) ==
  /\ last'.op = "PACKET_IN"
  /\ last'.input.pkt.proto = "ipv4"
  /\ last'.input.vlan_id = v
  /\ Len(vr[v].packet_buffer) = MAX_SUSPENDPACKETS

\* C5: in every reachable state the packet_buffer of each VlanRouter holds
\* at most MAX_SUSPENDPACKETS = 3 packets, and the handling of an IPv4
\* packet-in that finds 3 packets queued leaves the queue and its timers as
\* they were and sends no ARP request.
C5_SuspendBound ==
  /\ [](\A v \in DOMAIN vr : Len(vr[v].packet_buffer) <= MAX_SUSPENDPACKETS)
  /\ [][\A v \in DOMAIN vr :
          Ipv4WhileFull(v) =>
            /\ vr'[v].packet_buffer = vr[v].packet_buffer
            /\ vr'[v].threads = vr[v].threads
            /\ \A k \in 1..Len(sent') : ~IsArpRequest(sent'[k])]_vars

\* a packet to a host of a local subnet was dropped: three packets are
\* queued, the last event is the packet-in of a packet that is not among
\* them, and nothing was sent
C5_Witness ==
  /\ last.op = "PACKET_IN"
  /\ last.input.pkt.proto = "ipv4"
  /\ last.input.reason = "action"
  /\ last.input.pkt.dst = HOST1
  /\ Len(vr[0].packet_buffer) = MAX_SUSPENDPACKETS
  /\ steps = MAX_SUSPENDPACKETS + 1
  /\ sent = <<>>

\* the step handles an ARP reply on VLAN v whose source IP lies inside a
\* local Address and whose target IP is one of the router IPs
ArpReplyToRouter(v) ==
  /\ last'.op = "PACKET_IN"
  /\ last'.input.vlan_id = v
  /\ last'.input.pkt.proto = "arp"
  /\ last'.input.pkt.opcode = ARP_REPLY
  /\ \E i \in 1..Len(Addresses(v)) :
       PrefixContains(Addresses(v)[i].nw_addr, Addresses(v)[i].netmask,
                      last'.input.pkt.src)
  /\ \E i \in 1..Len(Addresses(v)) :
       Addresses(v)[i].default_gw = last'.input.pkt.dst

\* the step removes from the queue of VLAN v exactly the packets suspended
\* for S, ends exactly their timers, and sends each of them once to the table
SuspendedReleased(v, S) ==
  LET released == SelectSeq(vr[v].packet_buffer, LAMBDA p : p.dst_ip = S)
      resubmitted == SelectSeq(sent', LAMBDA m : m.type = "packet_out"
                                                 /\ m.output = OFPP_TABLE)
  IN  /\ vr'[v].packet_buffer =
           SelectSeq(vr[v].packet_buffer, LAMBDA p : p.dst_ip # S)
      /\ vr'[v].threads =
           vr[v].threads \ {released[k].tid : k \in 1..Len(released)}
      /\ Len(resubmitted) = Len(released)
      /\ \A k \in 1..Len(released) :
           /\ resubmitted[k].data = released[k].data
           /\ resubmitted[k].in_port = released[k].in_port

\* C6 as stated: the handling of an ARP reply with source IP S inside a
\* local Address and a router IP as target removes every suspended packet
\* with dst_ip = S from the queue, ends its timer and sends it once with
\* output TABLE, and leaves the other suspended packets and their timers.
C6_ReplyReleases ==
  [][\A v \in DOMAIN vr :
       ArpReplyToRouter(v) => SuspendedReleased(v, last'.input.pkt.src)]_vars

\* C6, amended: the same for an ARP reply whose source IP S differs from
\* its target IP (a reply with S as its own target is a gratuitous ARP: it
\* is flooded and releases nothing).
C6_ReplyReleasesUnlessGarp ==
  [][\A v \in DOMAIN vr :
       ArpReplyToRouter(v) /\ last'.input.pkt.src # last'.input.pkt.dst =>
         SuspendedReleased(v, last'.input.pkt.src)]_vars

\* the ARP reply of 10.0.0.5 released the packet suspended for it and left
\* the packet suspended for 10.0.0.130 in the queue
C6_Witness ==
  /\ last.op = "PACKET_IN"
  /\ last.input.pkt.proto = "arp"
  /\ last.input.pkt.opcode = ARP_REPLY
  /\ last.input.pkt.src = HOST1
  /\ \E k \in 1..Len(sent) :
       /\ sent[k].type = "packet_out" /\ sent[k].output = OFPP_TABLE
       /\ sent[k].data.proto = "ipv4" /\ sent[k].data.dst = HOST1
  /\ \E k \in 1..Len(vr[0].packet_buffer) :
       vr[0].packet_buffer[k].dst_ip = HOST2
  /\ \A k \in 1..Len(vr[0].packet_buffer) :
       vr[0].packet_buffer[k].dst_ip # HOST1

\* the body a GET request req returns in the current state
GetBody(req) ==
  access_router(World(<<>>), req, "get_data").msgs

\* a body without the gateway_mac of its routes
WithoutGatewayMac(body) ==
  [i \in 1..Len(body) |->
     [body[i] EXCEPT !.route =
        [k \in 1..Len(@) |-> [@[k] EXCEPT !.gateway_mac = None]]]]

\* a GET returns the body of the state it finds and changes nothing of it
GetReadsState ==
  last'.op = "GET" =>
    /\ last'.body = GetBody(last'.input)
    /\ \A req \in GetInputs(scenario) : GetBody(req)' = GetBody(req)

\* the step is neither a POST nor a DELETE
NoPostOrDelete == last'.op \notin {"POST", "DELETE"}

\* the step handles an ARP packet sent from the gateway address of a Route
ArpFromGateway ==
  /\ last'.op = "PACKET_IN"
  /\ last'.input.pkt.proto = "arp"
  /\ last'.input.vlan_id \in DOMAIN vr
  /\ \E k \in 1..Len(Routes(last'.input.vlan_id)) :
       Routes(last'.input.vlan_id)[k].gateway_ip = last'.input.pkt.src

\* C7 as stated: a GET returns the body of the state it finds, and no event
\* other than a POST or a DELETE (GET, packet-in, timer expiry, sweep)
\* changes the body that a GET for any switch and VLAN returns; so two GETs
\* with no POST or DELETE between them return identical bodies.
C7_GetIdempotent ==
  [][/\ GetReadsState
     /\ NoPostOrDelete =>
          \A req \in GetInputs(scenario) : GetBody(req)' = GetBody(req)]_vars

\* C7, amended: between two GETs with no POST or DELETE between them the
\* body changes at most in the gateway_mac of Routes, and only by an ARP
\* packet-in sent from the gateway address of a Route.
C7_GetIdempotentUpToGatewayMac ==
  [][/\ GetReadsState
     /\ NoPostOrDelete =>
          \A req \in GetInputs(scenario) :
            /\ WithoutGatewayMac(GetBody(req)') = WithoutGatewayMac(GetBody(req))
            /\ ~ArpFromGateway => GetBody(req)' = GetBody(req)]_vars

\* a GET answered after the gateway's ARP reply and the suspension of a
\* packet: the body shows the gateway_mac learned
C7_Witness ==
  /\ last.op = "GET"
  /\ last.exc = "none"
  /\ steps >= 3
  /\ vr[0].packet_buffer # <<>>
  /\ Len(last.body) = 1
  /\ \E k \in 1..Len(last.body[1].route) :
       last.body[1].route[k].gateway_mac = <<"m2">>

\* Address a of VLAN v contains the gateway of a Route of v
ContainsGateway(v, a) ==
  \E k \in 1..Len(Routes(v)) :
    PrefixContains(a.nw_addr, a.netmask, Routes(v)[k].gateway_ip)

\* the step is a DELETE {address_id: id} for the existing VlanRouter v
DeleteAddressStep(v, id) ==
  /\ last'.op = "DELETE"
  /\ last'.input.switch_id = KnownSwitch
  /\ last'.input.vlan_id = <<v>>
  /\ last'.input.param.keys = {"address_id"}
  /\ last'.input.param.address_id = id
  /\ v \in DOMAIN vr

\* DELETE {address_id: N} of an Address N containing a Route's gateway is
\* refused: failure 'Skip delete', Address N stays, no flow is deleted
SingleDeleteRefused(v) ==
  \A i \in 1..Len(Addresses(v)) :
    DeleteAddressStep(v, Addresses(v)[i].address_id)
    /\ ContainsGateway(v, Addresses(v)[i]) =>
      /\ last'.exc = "none"
      /\ last'.body = <<Response(v, Msg(REST_NG, "Skip delete", <<>>,
                                        <<Addresses(v)[i].address_id>>))>>
      /\ v \in DOMAIN vr'
      /\ vr'[v].address_data = vr[v].address_data
      /\ flows' = flows
      /\ \A k \in 1..Len(sent') : sent'[k].type # "flow_del"

\* the flow-stats entries the request of the step receives
ReceivedStats ==
  StatsResult(flows, IF last'.input.oracle = <<>> THEN "reply"
                     ELSE Head(last'.input.oracle))

\* the flow-stats reply received lists a flow of Address a of VLAN v, under
\* an address id of at most UINT16_MAX
ListedInStats(v, a) ==
  /\ a.address_id[1] = 0
  /\ \E k \in 1..Len(ReceivedStats) :
       /\ cookie_to_id(REST_VLANID, ReceivedStats[k].cookie) = v
       /\ cookie_to_id(REST_ADDRESSID, ReceivedStats[k].cookie) = a.address_id

\* DELETE 'all' on VLAN v deletes exactly the Addresses in gone, skips those
\* containing a gateway, and answers: with success, the deleted ids and the
\* skipped ids if always_ok or if it deleted an Address; else with failure
\* and the skipped ids, if there are any
DeleteAllOutcome(v, gone, always_ok) ==
  LET kept == SelectSeq(Addresses(v), LAMBDA a : a \notin gone)
      skipped == {a \in SeqToSet(Addresses(v)) : ContainsGateway(v, a)}
  IN  /\ last'.exc = "none"
      /\ v \in DOMAIN vr' /\ vr'[v].address_data.addrs = kept
      /\ Len(last'.body) = 1
      /\ SeqToSet(last'.body[1].skip) = {a.address_id : a \in skipped}
      /\ SeqToSet(last'.body[1].ids) = {a.address_id : a \in gone}
      /\ IF always_ok \/ gone # {}
         THEN /\ last'.body[1].result = REST_OK
              /\ last'.body[1].details =
                   IF skipped # {} THEN "Delete address, Skip delete"
                   ELSE "Delete address"
         ELSE skipped # {} =>
                /\ last'.body[1].result = REST_NG
                /\ last'.body[1].details = "Skip delete"

\* C8 as stated: DELETE {address_id: N} is refused when a Route's gateway
\* lies inside Address N (failure 'Skip delete (related route exist)',
\* Address N stays registered, no flow is deleted); DELETE {address_id:
\* 'all'} on a VLAN with Addresses deletes exactly the Addresses that
\* contain no Route's gateway, skips the others, and reports success with
\* the deleted ids followed by the skipped ids.
C8_DeleteAddress ==
  [][\A v \in DOMAIN vr :
       /\ SingleDeleteRefused(v)
       /\ DeleteAddressStep(v, REST_ALL) /\ Addresses(v) # <<>> =>
            DeleteAllOutcome(v, {a \in SeqToSet(Addresses(v)) :
                                   ~ContainsGateway(v, a)}, TRUE)]_vars

\* C8, amended: DELETE {address_id: N} as stated; DELETE {address_id:
\* 'all'} skips every Address that contains a Route's gateway and deletes
\* exactly the other Addresses of which the flow-stats reply it receives
\* lists a flow, under an id of at most 65535; it reports success with the
\* deleted ids followed by the skipped ids when it deleted an Address, and
\* failure with the skipped ids when it deleted none and skipped some.
C8_DeleteAddressAsListed ==
  [][\A v \in DOMAIN vr :
       /\ SingleDeleteRefused(v)
       /\ DeleteAddressStep(v, REST_ALL) =>
            DeleteAllOutcome(v, {a \in SeqToSet(Addresses(v)) :
                                   ~ContainsGateway(v, a) /\ ListedInStats(v, a)},
                             FALSE)]_vars

\* DELETE 'all' deleted Address 10.0.1.1/24 and skipped Address 10.0.0.1/24,
\* which contains the gateway of the default route
C8_Witness ==
  /\ last.op = "DELETE"
  /\ last.input.param.address_id = REST_ALL
  /\ Len(last.body) = 1
  /\ last.body[1].result = REST_OK
  /\ last.body[1].details = "Delete address, Skip delete"
  /\ last.body[1].ids # <<>> /\ last.body[1].skip # <<>>
  /\ Len(Addresses(0)) = 1
  /\ ContainsGateway(0, Addresses(0)[1])

\* C9: every validation failure of a POST is answered with HTTP 400: no
\* response to a POST that carries a result of failure (overlapping address,
\* duplicate destination, gateway outside every local subnet, gateway equal
\* to a default_gw) has status 200, and a POST that ends in ValueError
\* (malformed CIDR, VID out of range) has status 400.
C9_ValidationFailureIs400 ==
  last.op = "POST" =>
    /\ (\E k \in 1..Len(last.body) : last.body[k].result = REST_NG) =>
         last.status = 400
    /\ last.exc = "ValueError" => last.status = 400

\* the step is a POST of {"address": "A.B.C.D/M"}, without a 'bare' key, to
\* a VID v in [VLANID_MIN, VLANID_MAX] that has no VlanRouter
PostAddressToNewVlan(v) ==
  /\ last'.op = "POST"
  /\ last'.input.switch_id = KnownSwitch
  /\ last'.input.vlan_id = <<v>>
  /\ last'.input.param.syntax_ok
  /\ last'.input.param.keys = {"address"}
  /\ last'.input.param.address.mask \in 0..32
  /\ v \notin DOMAIN vr

\* C10: a POST of {"address": "A.B.C.D/M"} without a 'bare' key to a VID in
\* [2, 4094] that has no VlanRouter creates the VlanRouter of that VID, not
\* bare, adds the Address to it and returns success with status 200.
C10_PostCreatesVlanRouter ==
  [][\A v \in VLANID_MIN..VLANID_MAX :
       PostAddressToNewVlan(v) =>
         /\ last'.status = 200
         /\ Len(last'.body) = 1 /\ last'.body[1].result = REST_OK
         /\ v \in DOMAIN vr'
         /\ ~vr'[v].bare
         /\ Len(vr'[v].address_data.addrs) = 1
         /\ vr'[v].address_data.addrs[1].default_gw =
              last'.input.param.address.ip]_vars

\* the step is a POST with key k on VLAN v that returns success
SuccessfulPost(v, k) ==
  /\ last'.op = "POST"
  /\ last'.input.vlan_id = <<v>>
  /\ k \in last'.input.param.keys
  /\ last'.exc = "none"
  /\ Len(last'.body) = 1
  /\ last'.body[1].result = REST_OK

\* the messages of the step after those of the construction of a VlanRouter
\* for v (its default-drop flow), if the step constructs it
SentBySetData(v) ==
  IF v \in DOMAIN vr THEN sent' ELSE SubSeq(sent', 2, Len(sent'))

\* message m installs a packet-in flow of VLAN v for IPv4 packets to dst/bits
IsPacketInFlow(m, v, cookie, priority, dst, bits) ==
  /\ m.type = "flow_add"
  /\ m.flow.cookie = cookie
  /\ m.flow.priority = priority
  /\ m.flow.match.dl_type = ETH_TYPE_IP
  /\ m.flow.match.dl_vlan = v
  /\ m.flow.match.nw_dst = [ip |-> dst, bits |-> bits]
  /\ m.flow.actions = <<<<"output", OFPP_CONTROLLER>>>>

\* messages ms are one ARP request from src for dst out of every port of the
\* switch, each sent once
ArpRequestOnEveryPort(ms, v, src, dst) ==
  /\ Len(ms) = Cardinality(PortNos)
  /\ \A k \in 1..Len(ms) :
       /\ IsArpRequest(ms[k])
       /\ ms[k].data.vlan = v
       /\ ms[k].data.src_ip = src /\ ms[k].data.dst_ip = dst
  /\ {ms[k].output : k \in 1..Len(ms)} = PortNos

\* the AddressData of VLAN v before the step (that of a new VlanRouter if the
\* step creates it)
AddressDataBefore(v) ==
  IF v \in DOMAIN vr THEN vr[v].address_data
  ELSE [addrs |-> <<>>, address_id |-> <<0, 1>>]

\* C11: a successful POST {address: A/M} on a non-bare VlanRouter adds
\* exactly one Address, with the next address_id, and emits in this order:
\* the MAC-learning packet-in flow (IP, dst = nw_addr/M), the IP-handling
\* packet-in flow (dst = default_gw/32), both with cookie (vlan_id << 32 |
\* address_id), then one gratuitous ARP (source = target = default_gw) out
\* of every port of the switch.
C11_PostAddressEmits ==
  [][\A v \in DOMAIN vr' :
       SuccessfulPost(v, "address") =>
         LET before == AddressDataBefore(v)
             id == before.address_id
             a == vr'[v].address_data.addrs[Len(before.addrs) + 1]
             ms == SentBySetData(v)
             vlan_shift == IF v # 0 THEN PRIORITY_VLAN_SHIFT ELSE 0
         IN  /\ ~vr'[v].bare
             /\ Len(vr'[v].address_data.addrs) = Len(before.addrs) + 1
             /\ SubSeq(vr'[v].address_data.addrs, 1, Len(before.addrs))
                  = before.addrs
             /\ a.address_id = id
             /\ a.default_gw = last'.input.param.address.ip
             /\ a.netmask = last'.input.param.address.mask
             /\ PrefixContains(a.nw_addr, a.netmask, a.default_gw)
             /\ Len(ms) = 2 + Cardinality(PortNos)
             /\ IsPacketInFlow(ms[1], v, <<v, id[1], id[2]>>,
                               PRIORITY_MAC_LEARNING + vlan_shift,
                               a.nw_addr, a.netmask)
             /\ IsPacketInFlow(ms[2], v, <<v, id[1], id[2]>>,
                               PRIORITY_IP_HANDLING + PRIORITY_VLAN_SHIFT
                                 + PRIORITY_NETMASK_SHIFT,
                               a.default_gw, 32)
             /\ ArpRequestOnEveryPort(SubSeq(ms, 3, Len(ms)), v,
                                      a.default_gw, a.default_gw)]_vars

\* an Address was added to the VlanRouter of the tagged VLAN 10, created by
\* the request: five messages were sent
C11_Witness ==
  /\ last.op = "POST"
  /\ last.input.vlan_id = <<10>>
  /\ "address" \in last.input.param.keys
  /\ Len(last.body) = 1 /\ last.body[1].result = REST_OK
  /\ 10 \in DOMAIN vr /\ Len(vr[10].address_data.addrs) = 1
  /\ Len(sent) = 3 + Cardinality(PortNos)

\* the network a flow matches on: none for the integer 0 of an absent prefix
MatchedNet(ip, bits) == IF ip = ZeroInt THEN NoNet ELSE [ip |-> ip, bits |-> bits]

\* the priority the claim C12 names for a route: 3 + mask, 4 + mask, 1 or 2,
\* plus 1000 on a tagged VLAN
NamedRoutePriority(v, isdefault, qualified, mask) ==
  (IF isdefault
   THEN IF qualified THEN PRIORITY_ADDRESSED_DEFAULT_ROUTING
        ELSE PRIORITY_DEFAULT_ROUTING
   ELSE (IF qualified THEN PRIORITY_ADDRESSED_STATIC_ROUTING
         ELSE PRIORITY_STATIC_ROUTING) + mask)
  + (IF v # 0 THEN PRIORITY_VLAN_SHIFT ELSE 0)

\* C12: a successful POST {gateway, destination?, address_id?} inserts
\* exactly one Route, with the next route_id and no gateway_mac, installs one
\* packet-in flow for the destination prefix (and the source prefix when
\* address_id is given) with cookie (vlan_id << 32 | route_id << 16) and
\* priority 3 + mask, 4 + mask, 1 or 2 (static, source-qualified static,
\* default, source-qualified default; a default route is one whose
\* destination is absent or '0.0.0.0/0'), plus 1000 on a tagged VLAN, and
\* sends an ARP request from the default_gw of the Address containing the
\* gateway to the gateway out of every port.
C12_PostRouteEmits ==
  [][\A v \in DOMAIN vr' :
       SuccessfulPost(v, "gateway") =>
         LET p == last'.input.param
             id == vr[v].policy_routing_tbl.route_id
             qualified == "address_id" \in p.keys
             isdefault == p.destination = INADDR_ANY
             new == {i \in 1..Len(Routes(v)') :
                       \A j \in 1..Len(Routes(v)) : Routes(v)[j] # Routes(v)'[i]}
             r == Routes(v)'[CHOOSE i \in new : TRUE]
             via == {i \in 1..Len(Addresses(v)) :
                       PrefixContains(Addresses(v)[i].nw_addr,
                                      Addresses(v)[i].netmask, p.gateway)}
             from == {i \in 1..Len(Addresses(v)) :
                        Addresses(v)[i].address_id = p.address_id}
         IN  /\ v \in DOMAIN vr
             /\ Cardinality(new) = 1
             /\ Len(Routes(v)') = Len(Routes(v)) + 1
             /\ \A j \in 1..Len(Routes(v)) :
                  \E i \in 1..Len(Routes(v)') : Routes(v)'[i] = Routes(v)[j]
             /\ r.route_id = id /\ id[1] = 0
             /\ vr'[v].policy_routing_tbl.route_id = NextId(id)
             /\ r.gateway_mac = None
             /\ r.gateway_ip = p.gateway
             /\ r.dst_netmask = p.destination.mask
             /\ isdefault => r.dst_ip = ZeroInt
             /\ ~isdefault =>
                  PrefixContains(r.dst_ip, r.dst_netmask, p.destination.ip)
             /\ Cardinality(via) = 1
             /\ qualified => Cardinality(from) = 1
             /\ qualified =>
                  LET a == Addresses(v)[CHOOSE i \in from : TRUE]
                  IN  r.src_ip = a.nw_addr /\ r.src_netmask = a.netmask
             /\ ~qualified => r.src_ip = ZeroInt
             /\ Len(sent') = 1 + Cardinality(PortNos)
             /\ IsPacketInFlow(sent'[1], v, <<v, id[2], 0>>,
                               NamedRoutePriority(v, isdefault, qualified,
                                                  p.destination.mask),
                               sent'[1].flow.match.nw_dst.ip, r.dst_netmask)
             /\ sent'[1].flow.match.nw_dst = MatchedNet(r.dst_ip, r.dst_netmask)
             /\ sent'[1].flow.match.nw_src = MatchedNet(r.src_ip, r.src_netmask)
             /\ ArpRequestOnEveryPort(
                  SubSeq(sent', 2, Len(sent')), v,
                  Addresses(v)[CHOOSE i \in via : TRUE].default_gw,
                  p.gateway)]_vars

\* a source-qualified static route to a /16 was added on the tagged VLAN 10:
\* its flow has priority 4 + 16 + 1000 and matches on the source prefix
C12_Witness ==
  /\ last.op = "POST"
  /\ last.input.vlan_id = <<10>>
  /\ {"gateway", "address_id", "destination"} \subseteq last.input.param.keys
  /\ Len(last.body) = 1 /\ last.body[1].result = REST_OK
  /\ Len(sent) = 1 + Cardinality(PortNos)
  /\ sent[1].type = "flow_add"
  /\ sent[1].flow.priority = 1020
  /\ sent[1].flow.match.nw_src # NoNet

\* the step is a POST that fails: it raises ValueError or a VlanRouter
\* reports a CommandFailure
FailedPost ==
  /\ last'.op = "POST"
  /\ \/ last'.exc = "ValueError"
     \/ \E i \in 1..Len(last'.body) : last'.body[i].result = REST_NG

\* C13: a POST that fails (CommandFailure or ValueError) leaves the
\* AddressData, the PolicyRoutingTable (its tables and routes), the
\* address_id and route_id counters and the set of VlanRouters as they were:
\* no VlanRouter and no source-qualified table created for the failing
\* request remains.
C13_FailedPostRollsBack ==
  [][FailedPost =>
       /\ DOMAIN vr' = DOMAIN vr
       /\ \A v \in DOMAIN vr :
            /\ vr'[v].address_data = vr[v].address_data
            /\ vr'[v].policy_routing_tbl = vr[v].policy_routing_tbl]_vars

\* VlanRouter vrt has no Address and no Route: its PolicyRoutingTable is the
\* empty any-source table alone
HoldsNothing(vrt) ==
  /\ vrt.address_data.addrs = <<>>
  /\ Len(vrt.policy_routing_tbl.tables) = 1
  /\ vrt.policy_routing_tbl.tables[1].key = INADDR_ANY_KEY
  /\ vrt.policy_routing_tbl.tables[1].routes = <<>>

\* message m is a flow-mod for VLAN v
FlowModFor(m, v) ==
  /\ m.type \in {"flow_add", "flow_del"}
  /\ (m.flow.match.dl_vlan = v \/ m.flow.cookie[1] = v)

\* C14: a VlanRouter created with bare = true has no Address, no Route and no
\* flow (its construction installs no default-drop flow), and no POST
\* changes it or issues a flow-mod on its behalf.
C14_BareUntouched ==
  /\ [](\A v \in DOMAIN vr :
          vr[v].bare =>
            /\ HoldsNothing(vr[v])
            /\ \A i \in 1..Len(flows) :
                 flows[i].match.dl_vlan # v /\ flows[i].cookie[1] # v)
  /\ [][last'.op = "POST" =>
          \A v \in DOMAIN vr' :
            vr'[v].bare =>
              /\ v \in DOMAIN vr => vr'[v] = vr[v]
              /\ \A k \in 1..Len(sent') : ~FlowModFor(sent'[k], v)]_vars

\* a POST {address} to the bare VlanRouter of VLAN 20 returned: the
\* VlanRouter is still there and the request has no result
C14_Witness ==
  /\ last.op = "POST"
  /\ last.input.vlan_id = <<20>>
  /\ last.input.param.keys = {"address"}
  /\ last.exc = "none" /\ last.body = <<>>
  /\ 20 \in DOMAIN vr /\ vr[20].bare

\* the step is a DELETE that selects the VlanRouter of VLAN v
DeleteSelects(v) ==
  /\ last'.op = "DELETE"
  /\ last'.input.switch_id = KnownSwitch
  /\ last'.input.vlan_id \in {<<v>>, REST_ALL}

\* C15: after a DELETE, a VlanRouter of a tagged VLAN left with no Address
\* and only the empty any-source table is removed, and once it is removed no
\* flow whose cookie carries its vlan_id remains installed; the VlanRouter of
\* VLANID_NONE is never removed.
C15_EmptyVlanRouterRemoved ==
  [][/\ \A v \in DOMAIN vr' :
          DeleteSelects(v) /\ v # VLANID_NONE => ~HoldsNothing(vr'[v])
     /\ \A v \in DOMAIN vr \ DOMAIN vr' :
          DeleteSelects(v) =>
            \A i \in 1..Len(flows') :
              cookie_to_id(REST_VLANID, flows'[i].cookie) # v
     /\ VLANID_NONE \in DOMAIN vr']_vars

\* the step is a DELETE {k: N} on VLAN v with an integer N
DeleteById(v, k, N) ==
  /\ last'.op = "DELETE"
  /\ last'.input.switch_id = KnownSwitch
  /\ last'.input.vlan_id = <<v>>
  /\ k \in last'.input.param.keys
  /\ last'.input.param[k] = N

\* C16: DELETE {route_id: N}, for any integer N (0 and the ids that name no
\* Route included), issues delete-flow commands only for flows installed for
\* Route N of this VLAN: the ARP-capture flow, the default-drop flow, the
\* MAC-learning and IP-handling flows of the Addresses and the implicit host
\* flows stay installed.
C16_DeleteRouteFlows ==
  [][\A v \in DOMAIN vr : \A n \in 0..MaxRouteId :
       DeleteById(v, "route_id", Id(n)) =>
         /\ \A k \in 1..Len(sent') :
              sent'[k].type = "flow_del" =>
                n # 0 /\ sent'[k].flow.cookie = <<v, n, 0>>
         /\ \A i \in 1..Len(flows) :
              flows[i].cookie # <<v, n, 0>> \/ n = 0 =>
                \E j \in 1..Len(flows') : flows'[j] = flows[i]]_vars

\* the DELETE of the step reports failure: it raises, or a VlanRouter answers
\* with the result 'failure'
DeleteReportsFailure ==
  \/ last'.exc # "none"
  \/ \E i \in 1..Len(last'.body) : last'.body[i].result = REST_NG

\* C17: DELETE {address_id: N}, for any integer N (0, 65536 and the ids that
\* name no Address included), issues delete-flow commands only for flows
\* installed for Address N of this VLAN: the flows of the Routes, the
\* default-drop flow and the ARP-capture flow stay installed, and a DELETE
\* that reports failure deletes no flow.  (A DELETE that removes the
\* VlanRouter also deletes the VLAN's remaining flows; the statement
\* covers the DELETEs after which the VlanRouter exists.)
C17_DeleteAddressFlows ==
  [][\A v \in DOMAIN vr' : \A n \in (0..MaxAddressId) \cup {UINT16_MAX + 1} :
       DeleteById(v, "address_id", Id(n)) /\ v \in DOMAIN vr =>
         LET named == \E i \in 1..Len(Addresses(v)) :
                        Addresses(v)[i].address_id = Id(n)
             cookie == <<v, Id(n)[1], Id(n)[2]>>
         IN  /\ \A k \in 1..Len(sent') :
                  sent'[k].type = "flow_del" =>
                    /\ named
                    /\ sent'[k].flow.cookie = cookie
                    /\ ~DeleteReportsFailure
             /\ \A i \in 1..Len(flows) :
                  ~named \/ flows[i].cookie # cookie =>
                    \E j \in 1..Len(flows') : flows'[j] = flows[i]]_vars

\* the step is a DELETE {route_id} on VLAN v
DeleteRouteOn(v) ==
  /\ last'.op = "DELETE"
  /\ last'.input.switch_id = KnownSwitch
  /\ last'.input.vlan_id = <<v>>
  /\ "route_id" \in last'.input.param.keys

\* the Routes of VLAN v that the step deletes
DeletedRoutes(v) ==
  {Routes(v)[i] : i \in {j \in 1..Len(Routes(v)) :
                           \A k \in 1..Len(Routes(v)') :
                             Routes(v)'[k] # Routes(v)[j]}}

\* the step installs the default-drop flow of VLAN v
InstallsDefaultDrop(v) ==
  \E k \in 1..Len(sent') :
    /\ sent'[k].type = "flow_add"
    /\ sent'[k].flow.cookie = <<v, 0, 0>>
    /\ sent'[k].flow.actions = <<>>
    /\ sent'[k].flow.match.dl_vlan = v
    /\ sent'[k].flow.priority =
         PRIORITY_DEFAULT_ROUTING + (IF v # 0 THEN PRIORITY_VLAN_SHIFT ELSE 0)

\* C18 as stated: deleting a route reinstalls the default-drop flow of the
\* VLAN if and only if the deleted route has a destination of prefix length
\* 0, however the destination was written in the POST.
C18_ReinstallIffPrefixZero ==
  [][\A v \in DOMAIN vr :
       DeleteRouteOn(v) /\ DeletedRoutes(v) # {} =>
         (InstallsDefaultDrop(v) <=>
            \E r \in DeletedRoutes(v) : r.dst_netmask = 0)]_vars

\* C18 (amended): deleting a route reinstalls the default-drop flow of the
\* VLAN if and only if the deleted route is a default route without source
\* qualification whose destination was omitted or written '0.0.0.0/0', on
\* tagged and untagged VLANs alike; deleting a static route, a
\* source-qualified default route or a route whose destination was written
\* otherwise with prefix length 0 reinstalls nothing.
C18_ReinstallIffPlainDefault ==
  [][\A v \in DOMAIN vr :
       DeleteRouteOn(v) /\ DeletedRoutes(v) # {} =>
         (InstallsDefaultDrop(v) <=>
            \E r \in DeletedRoutes(v) :
              r.dst_ip = ZeroInt /\ r.src_ip = ZeroInt)]_vars

\* the default route of the tagged VLAN 10 was deleted and the default-drop
\* flow of the VLAN, priority 1 + 1000, was installed again
C18_Witness ==
  /\ last.op = "DELETE"
  /\ last.input.vlan_id = <<10>>
  /\ "route_id" \in last.input.param.keys
  /\ Len(last.body) = 1 /\ last.body[1].result = REST_OK
  /\ Routes(10) = <<>>
  /\ \E k \in 1..Len(sent) :
       /\ sent[k].type = "flow_add"
       /\ sent[k].flow.cookie = <<10, 0, 0>>
       /\ sent[k].flow.priority = 1001
       /\ sent[k].flow.actions = <<>>

\* C19: among the priorities get_priority gives to the route flows of one
\* VLAN, a longer destination prefix always gets a strictly higher priority:
\* for any two routes r1 and r2, each source-qualified or not, with
\* r1.dst_netmask > r2.dst_netmask, priority(r1) > priority(r2).
C19_LongerPrefixHigher ==
  last.op = "PRIORITY_ROUTES" =>
    (last.input.r1.dst_netmask > last.input.r2.dst_netmask
       => last.body[1] > last.body[2])

\* C20 as stated: for every priority class and every route mask, the
\* priority for a tagged VLAN is strictly greater than the priority of the
\* same class with vid = 0.
C20_TaggedHigher ==
  last.op = "PRIORITY_CLASS" => last.body[1] > last.body[2]

\* C20 (amended): for every priority class other than IP_HANDLING and every
\* route mask, the priority for a tagged VLAN is strictly greater than the
\* priority of the same class with vid = 0; for IP_HANDLING the two are
\* equal.
C20_TaggedHigherButIpHandling ==
  last.op = "PRIORITY_CLASS" =>
    IF last.input.call.priority_type = PRIORITY_IP_HANDLING
    THEN last.body[1] = last.body[2]
    ELSE last.body[1] > last.body[2]

\* the priority of IP_HANDLING was computed for VLAN 10 and for vid = 0: both
\* are 7 + 1000 + 32
C20_Witness ==
  /\ last.op = "PRIORITY_CLASS"
  /\ last.input.vid = 10
  /\ last.input.call.priority_type = PRIORITY_IP_HANDLING
  /\ last.body = <<1039, 1039>>

\* C21: no two Addresses of one VLAN share an address_id and no two Routes
\* of one PolicyRoutingTable share a route_id, also after the 32-bit counter
\* has wrapped; the counters never hand out 0.
C21_IdsUnique ==
  \A v \in DOMAIN vr :
    /\ \A i, j \in 1..Len(Addresses(v)) :
         i # j => Addresses(v)[i].address_id # Addresses(v)[j].address_id
    /\ \A i, j \in 1..Len(Routes(v)) :
         i # j => Routes(v)[i].route_id # Routes(v)[j].route_id
    /\ \A i \in 1..Len(Addresses(v)) : Addresses(v)[i].address_id # IdZero
    /\ \A i \in 1..Len(Routes(v)) : Routes(v)[i].route_id # IdZero
    /\ vr[v].address_data.address_id # IdZero
    /\ vr[v].policy_routing_tbl.route_id # IdZero

\* C22: once send_stats_request has returned, because the last fragment came
\* or because OFP_REPLY_TIMER ran out, the waiters hold no entry for its
\* datapath id and XID, and a fragment that arrives later is ignored: the
\* list the call returned stays as the caller read it.
C22_ReturnedNotPending ==
  \A c \in 1..Len(calls) :
    calls[c].pc = "returned" =>
      /\ ~Pending(waiters, calls[c].dp_id, calls[c].xid)
      /\ calls[c].msgs = calls[c].result

\* the step is a DELETE whose flow-stats request ran into OFP_REPLY_TIMER,
\* before any fragment ("timeout") or after fragments flagged 'more'
\* ("partial")
StatsTimedOut ==
  /\ last'.op = "DELETE"
  /\ last'.input.switch_id = KnownSwitch
  /\ last'.input.oracle # <<>>
  /\ Head(last'.input.oracle) \in {"timeout", "partial"}

DeletesNothing ==
  /\ \A k \in 1..Len(sent') : sent'[k].type # "flow_del"
  /\ \A v \in DOMAIN vr :
       /\ v \in DOMAIN vr'
       /\ Addresses(v)' = Addresses(v)
       /\ Routes(v)' = Routes(v)

FragmentFor(c) ==
  /\ last'.op = "STATS_REPLY"
  /\ Pending(waiters, last'.input.dp_id, last'.input.xid)
  /\ waiters[last'.input.dp_id][last'.input.xid] = c

\* C24: every fragment for a pending datapath id and XID is appended to the
\* list of the request, in arrival order; a fragment flagged 'more' neither
\* sets the event nor removes the entry; the first fragment without the flag
\* removes the entry and sets the event, which is set once only, and the
\* requester gets all the fragments up to and including that one.
C24_FragmentsDelivered ==
  [][\A c \in 1..Len(calls') :
       /\ FragmentFor(c) =>
            /\ calls'[c].msgs = Append(calls[c].msgs, last'.input)
            /\ IF last'.input.more
               THEN waiters' = waiters /\ calls'[c].set = calls[c].set
               ELSE /\ ~Pending(waiters', calls[c].dp_id, calls[c].xid)
                    /\ calls[c].set = 0 /\ calls'[c].set = 1
       /\ calls'[c].set <= 1
       /\ calls'[c].set = 1 /\ calls'[c].pc = "returned" =>
            calls'[c].result = calls'[c].msgs]_vars

\* the step handles a fragment whose datapath id and XID match no entry
UnmatchedFragment ==
  /\ last'.op = "STATS_REPLY"
  /\ ~Pending(waiters, last'.input.dp_id, last'.input.xid)

\* C25: a fragment whose datapath id and XID match no pending entry leaves
\* the waiters and every list of fragments unchanged and sets no event; a
\* fragment is given only to the request with its datapath id and its XID:
\* no list ever holds a fragment of another datapath or of another XID.
C25_RepliesAttributed ==
  /\ [][UnmatchedFragment => waiters' = waiters /\ calls' = calls]_vars
  /\ [](\A c \in 1..Len(calls) :
          \A k \in 1..Len(calls[c].msgs) :
            /\ calls[c].msgs[k].dp_id = calls[c].dp_id
            /\ calls[c].msgs[k].xid = calls[c].xid)
  /\ [][\A c \in 1..Len(calls) :
          calls'[c].msgs # calls[c].msgs =>
            /\ FragmentFor(c)
            /\ last'.input.dp_id = calls[c].dp_id
            /\ last'.input.xid = calls[c].xid
            /\ \A o \in 1..Len(calls) : o # c => calls'[o] = calls[o]]_vars

\* two requests with the same XID were made on the two datapaths; a fragment
\* for datapath 2 went to the request of datapath 2 only, and the last
\* fragment handled, for datapath 1 under another XID, matched no entry
C25_Witness ==
  /\ Len(calls) >= 2
  /\ calls[1].dp_id = 1 /\ calls[2].dp_id = 2
  /\ calls[1].xid = calls[2].xid
  /\ calls[1].msgs = <<>>
  /\ Len(calls[2].msgs) = 1
  /\ last.op = "STATS_REPLY"
  /\ ~Pending(waiters, last.input.dp_id, last.input.xid)
  /\ last.input.dp_id = 1 /\ last.input.xid # calls[1].xid

\* the step handles an ARP packet, a request or a reply, that came in on
\* VLAN v with a source IP inside an Address of v
ArpFromLocal(v) ==
  /\ last'.op = "PACKET_IN"
  /\ last'.input.vlan_id = v
  /\ last'.input.pkt.proto = "arp"
  /\ v \in DOMAIN vr
  /\ \E i \in 1..Len(Addresses(v)) :
       PrefixContains(Addresses(v)[i].nw_addr, Addresses(v)[i].netmask,
                      last'.input.pkt.src)

\* the priority of Route r of VLAN v
RoutePriority(v, r) ==
  NamedRoutePriority(v, r.dst_ip = ZeroInt, r.src_ip # ZeroInt, r.dst_netmask)

\* message m installs the routing flow of Route r of VLAN v towards the
\* sender of the ARP packet msg
IsGatewayFlow(m, v, r, msg) ==
  /\ m.type = "flow_add"
  /\ m.flow.cookie = <<v, r.route_id[2], 0>>
  /\ m.flow.priority = RoutePriority(v, r)
  /\ m.flow.match.dl_type = ETH_TYPE_IP
  /\ m.flow.match.dl_vlan = v
  /\ m.flow.match.nw_dst = MatchedNet(r.dst_ip, r.dst_netmask)
  /\ m.flow.match.nw_src = MatchedNet(r.src_ip, r.src_netmask)
  /\ m.flow.actions = << <<"set_eth_src", PortMac(msg.in_port)>>,
                         <<"set_eth_dst", msg.pkt.src_mac>>,
                         <<"output", msg.in_port>> >>

\* C26: after an ARP packet, request or reply, with source IP G inside a
\* local Address and source MAC M, every Route of every table with
\* gateway_ip = G has gateway_mac = M; for each one whose gateway_mac
\* changed, a routing flow was installed with cookie (vlan << 32 |
\* route_id << 16), the Route's priority and the actions set_eth_src = MAC
\* of the ingress port, set_eth_dst = M, output = ingress port; a Route with
\* another gateway_ip is unchanged, a Route whose gateway_mac was M already
\* gets no flow, and the Routes of the other VLANs are unchanged.
C26_GatewayMacLearned ==
  [][\A v \in DOMAIN vr :
       ArpFromLocal(v) =>
         /\ \A o \in DOMAIN vr \ {v} : o \in DOMAIN vr' /\ Routes(o)' = Routes(o)
         /\ v \in DOMAIN vr'
         /\ Len(Routes(v)') = Len(Routes(v))
         /\ \A i \in 1..Len(Routes(v)) :
              LET r == Routes(v)[i]
                  msg == last'.input
                  flow_sent ==
                    \E k \in 1..Len(sent') :
                      /\ sent'[k].type = "flow_add"
                      /\ sent'[k].flow.cookie = <<v, r.route_id[2], 0>>
              IN  IF r.gateway_ip # msg.pkt.src
                  THEN Routes(v)'[i] = r /\ ~flow_sent
                  ELSE /\ Routes(v)'[i] = [r EXCEPT !.gateway_mac = <<msg.pkt.src_mac>>]
                       /\ IF r.gateway_mac = <<msg.pkt.src_mac>>
                          THEN ~flow_sent
                          ELSE \E k \in 1..Len(sent') :
                                 IsGatewayFlow(sent'[k], v, r, msg)]_vars

\* on VLAN 10 an ARP reply of the gateway 10.0.0.2 set the gateway_mac of
\* both Routes and installed their routing flows
C26_Witness ==
  /\ last.op = "PACKET_IN"
  /\ last.input.vlan_id = 10
  /\ Len(Routes(10)) = 2
  /\ \A i \in 1..2 :
       /\ Routes(10)[i].gateway_mac = <<"m2">>
       /\ \E k \in 1..Len(sent) :
            IsGatewayFlow(sent[k], 10, Routes(10)[i], last.input)

\* flow f is an implicit-routing flow of VLAN v: the flow _learning_host_mac
\* installs, which rewrites the MACs, outputs to a port and idles out
IsImplicitFlow(f, v) ==
  /\ f.match.dl_vlan = v
  /\ f.match.dl_type = ETH_TYPE_IP
  /\ f.idle_timeout = IDLE_TIMEOUT
  /\ Len(f.actions) = 3 /\ f.actions[2][1] = "set_eth_dst"

\* C27: an implicit-routing flow is installed only for an ARP source IP that
\* is not an IP of the router: the switch never holds an implicit-routing
\* flow whose match is dst = default_gw/32 of an Address of its VLAN.
C27_NoImplicitFlowToRouterIp ==
  \A v \in DOMAIN vr :
    \A i \in 1..Len(flows), j \in 1..Len(Addresses(v)) :
      IsImplicitFlow(flows[i], v) =>
        flows[i].match.nw_dst # Net(Addresses(v)[j].default_gw, 32)

\* the step handles an ARP packet whose source IP lies inside no Address of
\* the VLAN it came in on
ArpFromNowhere ==
  /\ last'.op = "PACKET_IN"
  /\ last'.input.pkt.proto = "arp"
  /\ last'.input.vlan_id \in DOMAIN vr =>
       \A i \in 1..Len(Addresses(last'.input.vlan_id)) :
         ~PrefixContains(Addresses(last'.input.vlan_id)[i].nw_addr,
                         Addresses(last'.input.vlan_id)[i].netmask,
                         last'.input.pkt.src)

\* C28: an ARP packet-in whose source IP is inside no local Address is
\* dropped without effect: no gateway_mac changes, no flow is installed, no
\* packet is sent out and the suspended packets stay as they are.
C28_ForeignArpDropped ==
  [][ArpFromNowhere => vr' = vr /\ flows' = flows /\ sent' = <<>>]_vars

\* an ARP reply from 10.0.1.1, which lies in no Address, was dropped while a
\* packet was suspended
C28_Witness ==
  /\ last.op = "PACKET_IN"
  /\ last.input.pkt.proto = "arp"
  /\ last.input.pkt.src = GW3
  /\ Len(Addresses(0)) = 1
  /\ vr[0].packet_buffer # <<>>
  /\ sent = <<>>

\* the step handles an IPv4 packet-in on VLAN v that passed the entry filter
\* for expired TTLs and whose destination is no IP of the router
Ipv4ToOther(v) ==
  /\ last'.op = "PACKET_IN"
  /\ last'.input.pkt.proto = "ipv4"
  /\ last'.input.vlan_id = v
  /\ v \in DOMAIN vr
  /\ ~(dp.ver \in {OFP12, OFP13} /\ last'.input.reason = "invalid_ttl")
  /\ \A i \in 1..Len(Addresses(v)) :
       Addresses(v)[i].default_gw # last'.input.pkt.dst

\* the Addresses of VLAN v that contain ip
Containing(v, ip) ==
  {a \in SeqToSet(Addresses(v)) : PrefixContains(a.nw_addr, a.netmask, ip)}

\* the ARP requests among the messages of the step ask for hop on behalf of
\* one of the IPs in srcs, once on every port but the ingress port
ArpRequestOnOtherPorts(v, srcs, hop) ==
  LET reqs == {k \in 1..Len(sent') : IsArpRequest(sent'[k])}
  IN  /\ Cardinality(reqs) = Cardinality(PortNos) - 1
      /\ {sent'[k].output : k \in reqs} = PortNos \ {last'.input.in_port}
      /\ \A k \in reqs :
           /\ sent'[k].data.vlan = v
           /\ sent'[k].data.dst_ip = hop
           /\ sent'[k].data.src_ip \in srcs

TimerExpiresOn(v, p) ==
  /\ last'.op = "TIMER"
  /\ last'.input.vlan_id = v
  /\ v \in DOMAIN vr
  /\ \E i \in 1..Len(vr[v].packet_buffer) : vr[v].packet_buffer[i] = p
  /\ last'.input.tid = p.tid

\* the step sent one message, an ICMP destination unreachable / host
\* unreachable to the source of packet p, from one of the IPs in srcs, and
\* nothing at all if srcs is empty
HostUnreachableFrom(p, srcs) ==
  IF srcs = {} THEN sent' = <<>>
  ELSE /\ Len(sent') = 1
       /\ sent'[1].type = "packet_out"
       /\ sent'[1].in_port = p.in_port
       /\ sent'[1].data.proto = "icmp"
       /\ sent'[1].data.type = ICMP_DEST_UNREACH
       /\ sent'[1].data.code = "host_unreach"
       /\ sent'[1].data.dst_ip = p.header_list.src
       /\ sent'[1].data.eth_dst = p.header_list.eth_src
       /\ sent'[1].data.src_ip \in srcs

\* the step removed packet p from the queue of VLAN v and ended its timer
Dequeued(v, p) ==
  /\ v \in DOMAIN vr'
  /\ vr'[v].packet_buffer = SelectSeq(vr[v].packet_buffer, LAMBDA q : q # p)
  /\ vr'[v].threads = vr[v].threads \ {p.tid}

\* C30 as stated: when the ARP_REPLY_TIMER of a packet that is still queued
\* expires, exactly one ICMP destination unreachable / host unreachable goes
\* to the packet's source, from the default_gw of the Address containing the
\* packet's source, none when no Address contains it, and the packet is
\* removed from the queue.
C30_TimeoutUnreachable ==
  [][\A v \in DOMAIN vr : \A p \in SeqToSet(vr[v].packet_buffer) :
       TimerExpiresOn(v, p) =>
         /\ Dequeued(v, p)
         /\ HostUnreachableFrom(p,
              {a.default_gw : a \in Containing(v, p.header_list.src)})]_vars

\* the IPs the ICMP error for packet p may be sent from: the default_gw of
\* the Address containing the source of p or, if there is none, the
\* default_gw of the Address containing the gateway of the Route that
\* policy_routing_tbl.get_data(gw_mac, src_ip) finds for the source MAC of p
SendPortIps(v, p) ==
  LET route == PolicyRoutingTable_get_data(vr[v].policy_routing_tbl,
                 <<p.header_list.eth_src>>, None, <<p.header_list.src>>)
  IN  IF Containing(v, p.header_list.src) # {}
      THEN {a.default_gw : a \in Containing(v, p.header_list.src)}
      ELSE IF route = None THEN {}
      ELSE {a.default_gw : a \in Containing(v, route[1].gateway_ip)}

\* C30, amended: the ICMP error is sent from the default_gw of the Address
\* containing the packet's source or, when no Address contains it and the
\* packet came from the MAC of a Route's gateway, from the default_gw of the
\* Address containing that gateway; none is sent when neither exists.
C30_TimeoutUnreachableVia ==
  [][\A v \in DOMAIN vr : \A p \in SeqToSet(vr[v].packet_buffer) :
       TimerExpiresOn(v, p) =>
         /\ Dequeued(v, p)
         /\ HostUnreachableFrom(p, SendPortIps(v, p))]_vars

\* the timer of a packet from 10.9.9.9, sent by the gateway 10.0.0.2 of the
\* default route, expired: the ICMP error went to 10.9.9.9 from 10.0.0.1 and
\* the queue is empty
C30_Witness ==
  /\ last.op = "TIMER"
  /\ vr[0].packet_buffer = <<>>
  /\ Len(sent) = 1
  /\ sent[1].data.proto = "icmp"
  /\ sent[1].data.code = "host_unreach"
  /\ sent[1].data.dst_ip = OUTSIDE
  /\ sent[1].data.src_ip = GW1

\* the Addresses of VLAN v that the step removes
AddressesGone(v) == SeqToSet(Addresses(v)) \ SeqToSet(Addresses(v)')

\* the suspended packets of VLAN v whose dst_ip lies in an Address the step
\* removes
SuspendedFor(v, gone) ==
  {p \in SeqToSet(vr[v].packet_buffer) :
     \E a \in gone : AddressContains(a, p.dst_ip)}

\* the timers alive on VLAN v are those of the packets in its queue: a packet
\* that left the queue has no timer to send an ICMP error for it, and an ARP
\* reply resubmits queued packets only
TimersOfQueued(v) ==
  vr[v].threads = {vr[v].packet_buffer[i].tid : i \in 1..Len(vr[v].packet_buffer)}

\* C31: a step that deletes Addresses of a VLAN removes from its suspend
\* queue exactly the packets whose dst_ip lies in a deleted Address and ends
\* exactly their timers, sending neither an ICMP message nor a packet to the
\* table; the other packets stay queued in their order; and at all times the
\* live timers are those of the queued packets, so that a removed packet is
\* neither answered with an ICMP unreachable nor resubmitted afterwards.
C31_AddressDeleteCancels ==
  /\ [](\A v \in DOMAIN vr : TimersOfQueued(v))
  /\ [][\A v \in DOMAIN vr \cap DOMAIN vr' :
          AddressesGone(v) # {} =>
            /\ vr'[v].packet_buffer =
                 SelectSeq(vr[v].packet_buffer,
                           LAMBDA p : p \notin SuspendedFor(v, AddressesGone(v)))
            /\ vr'[v].threads =
                 vr[v].threads \ {p.tid : p \in SuspendedFor(v, AddressesGone(v))}
            /\ \A k \in 1..Len(sent') : sent'[k].type # "packet_out"]_vars

\* DELETE removed the Address 10.0.1.1/24 (id 2) while a packet for 10.0.1.1
\* and, behind it, a packet for 10.0.0.5 were suspended: only the second
\* packet and its timer are left
C31_Witness ==
  /\ last.op = "DELETE"
  /\ last.exc = "none"
  /\ Len(Addresses(0)) = 1
  /\ Addresses(0)[1].default_gw = GW1
  /\ last.body[1].result = REST_OK
  /\ last.body[1].ids = <<Id(2)>>
  /\ Len(vr[0].packet_buffer) = 1
  /\ vr[0].packet_buffer[1].dst_ip = HOST1
  /\ vr[0].packet_buffer[1].tid = 2
  /\ vr[0].threads = {2}

\* the step is a call of delete_flow that sends one delete flow-mod and
\* leaves in the flow table, in their order, the entries that Hit(f) is
\* false of
DeleteFlowRemoves(Hit(_)) ==
  /\ Len(sent') = 1
  /\ sent'[1].type = "flow_del"
  /\ sent'[1].flow = last'.input
  /\ flows' = SelectSeq(flows, LAMBDA f : ~Hit(f))

\* C32 as stated: on every OpenFlow version delete_flow(flow_stats) removes
\* exactly the flow entry with the cookie, match and priority of flow_stats,
\* and no other flow, in particular none that only shares the cookie.
C32_DeletesExactEntry ==
  [][last'.op = "DELETE_FLOW" =>
       DeleteFlowRemoves(LAMBDA f : /\ f.cookie = last'.input.cookie
                                    /\ f.match = last'.input.match
                                    /\ f.priority = last'.input.priority)]_vars

\* C32, amended: on OpenFlow 1.0 delete_flow(flow_stats) removes exactly the
\* entry with the match and priority of flow_stats; on 1.2 and 1.3 it removes
\* exactly the entries, of every table, whose cookie is that of flow_stats,
\* whatever their match and priority.
C32_DeletesByVersion ==
  [][last'.op = "DELETE_FLOW" =>
       DeleteFlowRemoves(LAMBDA f :
         IF dp.ver = OFP10
         THEN f.match = last'.input.match /\ f.priority = last'.input.priority
         ELSE f.cookie = last'.input.cookie)]_vars

\* on OpenFlow 1.3 delete_flow was called with the IP-handling flow of
\* Address 1 (destination 10.0.0.1/32): no flow with the cookie of Address 1
\* is left, the MAC-learning flow of the Address is gone as well
C32_Witness ==
  /\ last.op = "DELETE_FLOW"
  /\ dp.ver = OFP13
  /\ steps = 1
  /\ last.input.cookie = id_to_cookie(0, REST_ADDRESSID, Id(1))
  /\ last.input.match.nw_dst = MatchedNet(GW1, 32)
  /\ \A k \in 1..Len(flows) : flows[k].cookie # last.input.cookie
  /\ \E k \in 1..Len(flows) :
       flows[k].cookie = id_to_cookie(0, REST_ADDRESSID, Id(2))

\* C33: once the datapath has left, no wait thread of a suspended packet is
\* alive on any VlanRouter of its Router, no step sends a message to the
\* switch on behalf of the Router, and a packet-in of the datapath changes
\* nothing.
C33_QuietAfterDisconnect ==
  /\ [](~registered => \A v \in DOMAIN vr : vr[v].threads = {})
  /\ [][~registered =>
          /\ sent' = <<>>
          /\ last'.op = "PACKET_IN" => (vr' = vr /\ flows' = flows)]_vars

\* C34: the assertion of VlanRouter.delete, len(self.packet_buffer) == 0,
\* never fails: no request ends with an AssertionError.
C34_DeleteAssertionHolds == last.exc # "AssertionError"

\* the packets suspended on VLAN v whose next hop is the gateway G of a
\* Route: their destination lies in no Address of the VLAN, and the Route
\* that policy_routing_tbl.get_data(dst_ip, src_ip) finds for them has
\* gateway_ip = G
SuspendedVia(v, G) ==
  {p \in SeqToSet(vr[v].packet_buffer) :
     /\ Containing(v, p.dst_ip) = {}
     /\ LET route == PolicyRoutingTable_get_data(vr[v].policy_routing_tbl,
                       None, <<p.header_list.dst>>, <<p.header_list.src>>)
        IN  route # None /\ route[1].gateway_ip = G}

\* C35: the handling of an ARP reply from the gateway G of a Route, addressed
\* to a router IP, removes from the queue every packet that is suspended
\* with G as its next hop, ends its timer, and sends it with output TABLE,
\* so that no ICMP host-unreachable is emitted for it.
C35_GatewayReplyReleases ==
  [][\A v \in DOMAIN vr :
       ArpReplyToRouter(v) =>
         \A p \in SuspendedVia(v, last'.input.pkt.src) :
           /\ v \in DOMAIN vr'
           /\ p \notin SeqToSet(vr'[v].packet_buffer)
           /\ p.tid \notin vr'[v].threads
           /\ \E k \in 1..Len(sent') :
                /\ sent'[k].type = "packet_out"
                /\ sent'[k].output = OFPP_TABLE
                /\ sent'[k].data = p.data]_vars

\* Address a of VLAN v contains the gateway of one of the VLAN's Routes
HoldsGateway(v, a) ==
  \E k \in 1..Len(Routes(v)) :
    PrefixContains(a.nw_addr, a.netmask, Routes(v)[k].gateway_ip)

\* C38: a DELETE {address_id: N} that goes on after its wait in
\* send_stats_request leaves Address N registered when, by then, a Route of
\* the VLAN has its gateway in Address N; and in every reachable state the
\* gateway of every Route lies in a registered Address of its VLAN.
C38_RelationSurvivesWait ==
  /\ [](\A v \in DOMAIN vr : \A k \in 1..Len(Routes(v)) :
          GatewayCovered(v, Routes(v)[k]))
  /\ [][blocked # <<>> /\ blocked' = <<>> =>
          \A v \in DOMAIN vr : \A a \in SeqToSet(Addresses(v)) :
            HoldsGateway(v, a) =>
              v \in DOMAIN vr' /\ a \in SeqToSet(Addresses(v)')]_vars

\* message m is an outcome of suspended packet p: p sent to the table, or an
\* ICMP host unreachable about p to the source of p
OutcomeOf(m, p) ==
  /\ m.type = "packet_out"
  /\ m.in_port = p.in_port
  /\ \/ m.output = OFPP_TABLE /\ m.data = p.data
     \/ /\ m.output # OFPP_TABLE
        /\ m.data.proto = "icmp"
        /\ m.data.type = ICMP_DEST_UNREACH
        /\ m.data.code = "host_unreach"
        /\ m.data.dst_ip = p.header_list.src

\* the positions in ms of the messages that are the outcome of a suspended
\* packet
Outcomes(ms) ==
  {k \in 1..Len(ms) :
     /\ ms[k].type = "packet_out"
     /\ \/ ms[k].output = OFPP_TABLE
        \/ /\ ms[k].data.proto = "icmp"
           /\ ms[k].data.type = ICMP_DEST_UNREACH
           /\ ms[k].data.code = "host_unreach"}

\* the packets that the step takes out of the queue of VLAN v and whose
\* timers it ends
Leaving(v) ==
  {p \in SeqToSet(vr[v].packet_buffer) :
     \/ v \notin DOMAIN vr'
     \/ p.tid \notin vr'[v].threads /\ p \notin SeqToSet(vr'[v].packet_buffer)}

\* C36: a suspended packet gets at most one outcome.  In every step the
\* outcomes sent (packets sent to the table, ICMP host unreachables) belong
\* one to one to packets that were queued before the step, leave the queue in
\* it and have their timers ended; and in every state the queued packets are
\* distinct objects and the live timers are exactly theirs, so that no later
\* ARP reply, timer expiry or Address deletion reaches a packet that has had
\* its outcome.
C36_AtMostOneOutcome ==
  /\ [](\A v \in DOMAIN vr :
          /\ vr[v].threads = {vr[v].packet_buffer[i].tid :
                                i \in 1..Len(vr[v].packet_buffer)}
          /\ \A i, j \in 1..Len(vr[v].packet_buffer) :
               vr[v].packet_buffer[i].tid = vr[v].packet_buffer[j].tid => i = j)
  /\ [][\E v \in DOMAIN vr :
          \E f \in [Outcomes(sent') -> Leaving(v)] :
            /\ \A k \in Outcomes(sent') : OutcomeOf(sent'[k], f[k])
            /\ \A k, n \in Outcomes(sent') : f[k] = f[n] => k = n]_vars

\* an ARP reply that comes while a DELETE of an Address waits for its flow
\* stats releases a suspended packet: the packet is sent to the table and
\* the queue is empty when the DELETE goes on
C36_Witness ==
  /\ blocked # <<>>
  /\ last.op = "PACKET_IN"
  /\ last.input.pkt.proto = "arp"
  /\ \E k \in Outcomes(sent) : sent[k].output = OFPP_TABLE
  /\ vr[0].packet_buffer = <<>>
  /\ vr[0].threads = {}

\* the SuspendPacket with wait thread tid is in the queue of VLAN v
Queued(v, tid) ==
  /\ v \in DOMAIN vr
  /\ \E i \in 1..Len(vr[v].packet_buffer) : vr[v].packet_buffer[i].tid = tid

\* C37: every packet placed on the suspend queue eventually leaves it when
\* its timer task is scheduled fairly, and a queue that is full
\* (MAX_SUSPENDPACKETS packets) eventually has room again.
C37_QueuedPacketLeaves ==
  /\ \A tid \in 1..MAX_SUSPENDPACKETS :
       Queued(VLANID_NONE, tid) ~> ~Queued(VLANID_NONE, tid)
  /\ (Len(vr[VLANID_NONE].packet_buffer) = MAX_SUSPENDPACKETS)
       ~> (Len(vr[VLANID_NONE].packet_buffer) < MAX_SUSPENDPACKETS)

\* the queue was filled by three packet-ins and the expiry of the three
\* timers, nothing else, has emptied it
C37_Witness ==
  /\ last.op = "TIMER"
  /\ last.input.tid = MAX_SUSPENDPACKETS
  /\ steps = MAX_SUSPENDPACKETS
  /\ blocked = <<>>
  /\ vr[VLANID_NONE].packet_buffer = <<>>
  /\ vr[VLANID_NONE].threads = {}
  /\ Len(sent) = 1
  /\ Outcomes(sent) = {1}

\* VLAN v has a registered Address with the network of a
IsRegisteredSource(v, nw_addr, netmask) ==
  \E i \in 1..Len(Addresses(v)) :
    Addresses(v)[i].nw_addr = nw_addr /\ Addresses(v)[i].netmask = netmask

\* C39: in every reachable state the src_address of every source-qualified
\* routing table, and the source prefix of every Route whose source prefix is
\* not zero, is a registered Address of the VLAN: an Address that qualifies an
\* existing Route is not deleted.
C39_SourceAddressRegistered ==
  \A v \in DOMAIN vr :
    /\ \A t \in SeqToSet(vr[v].policy_routing_tbl.tables) :
         t.src_address # None =>
           /\ t.src_address[1] \in SeqToSet(Addresses(v))
           /\ IsRegisteredSource(v, t.src_address[1].nw_addr,
                                 t.src_address[1].netmask)
    /\ \A k \in 1..Len(Routes(v)) :
         Routes(v)[k].src_netmask # 0 =>
           IsRegisteredSource(v, Routes(v)[k].src_ip, Routes(v)[k].src_netmask)

====
